---- MODULE Spec2Model ----
(***************************************************************************)
(* Session orchestration and evaluation engine of the AI interviewer.      *)
(*                                                                         *)
(* The store (helpers.SessionManager.sessions) maps a session identity to  *)
(* an InterviewSession.  Every request handler of main.py is an            *)
(* `async def` without an await, so a handler runs to completion before    *)
(* the next one starts: one action per handler.  The generation backend    *)
(* is an input of the handler that calls it: either a failure (exception,  *)
(* unparseable text, missing field) or a parsed payload.                   *)
(*                                                                         *)
(* Texts are sequences of one-character strings.  An Optional value is a   *)
(* sequence of length 0 (None) or 1.  Scores are integers, weights are in  *)
(* hundredths, so an overall score is kept in hundredths of a point.       *)
(***************************************************************************)
EXTENDS Integers, Sequences, FiniteSets, TLC

VARIABLES
    sessions,   \* session_manager.sessions: session identity -> InterviewSession
    now,        \* datetime.utcnow(), in whole seconds
    resp,       \* the response of the last request served
    loop        \* the event loop: the handler it is running, the requests waiting

vars == <<sessions, now, resp, loop>>

----------------------------------------------------------------------------
(* Bounds of the model *)

\* clock seconds run over 0..MaxClock
MaxClock == 1
\* Spec: the environment stops asking once the store holds MaxAsk questions
MaxAsk == 2
\* Spec: the environment stops answering once the store holds MaxAnswers answers
MaxAnswers == 2
\* SpecCycle: questions and answers of the one session
MaxCycleAsk == 3
MaxCycleAnswers == 2
\* SpecCap: answers of the one session (its questions are capped by the program)
MaxCapAnswers == 1
\* SpecPolicy: filler words of an answer, and expected topics
MaxFill == 10
MaxTopics == 2
\* SpecScore: audio segments of the session evaluated
MaxAudio == 2
\* SpecDuration: audio segments of the session evaluated
MaxDurAudio == 3
\* SpecLife: screens, audio segments, questions and answers of the store, together
MaxLifeItems == 2
\* SpecStore: outcomes of uuid4 are 1..MaxUuid
MaxUuid == 1
\* SpecStore: questions of the store
MaxStoreAsk == 1
\* SpecAgain: questions of the session evaluated
MaxAgainAsk == 3
\* SpecLoop: stored questions and screen contents, requests waiting and running
MaxLoopWork == 2
MaxLoopCapRoom == 2
MaxLoopCapRequests == 3
MaxPairItems == 2
\* SpecContext: screen contents, audio segments and questions of the session
MaxCtxScreens == 11
MaxCtxAudio == 6
MaxCtxQuestions == 4

(* Program constants *)

MAX_QUESTIONS == 10

----------------------------------------------------------------------------
(* Optional values and small helpers *)

None == <<>>
Some(v) == <<v>>

Min(S) == CHOOSE x \in S : \A y \in S : x <= y

RECURSIVE SumSeq(_)
SumSeq(s) == IF s = <<>> THEN 0 ELSE Head(s) + SumSeq(Tail(s))

RECURSIVE SeqsUpTo(_, _)
SeqsUpTo(S, n) ==
    IF n = 0 THEN {<<>>}
    ELSE LET shorter == SeqsUpTo(S, n - 1)
         IN shorter \cup {Append(s, x) : s \in shorter, x \in S}

----------------------------------------------------------------------------
(* Text: str.split(), str.lower(), the `in` operator *)

UpperLetters == <<"A", "B", "C", "X">>
LowerLetters == <<"a", "b", "c", "x">>

IsSpace(c) == c \in {" ", "\t", "\n"}

LowerChar(c) ==
    IF \E i \in 1..Len(UpperLetters) : UpperLetters[i] = c
    THEN LowerLetters[CHOOSE i \in 1..Len(UpperLetters) : UpperLetters[i] = c]
    ELSE c

lower(s) == [i \in 1..Len(s) |-> LowerChar(s[i])]

RECURSIVE SplitWords(_, _, _)
SplitWords(s, i, cur) ==
    IF i > Len(s)
    THEN (IF cur = <<>> THEN <<>> ELSE <<cur>>)
    ELSE IF IsSpace(s[i])
         THEN (IF cur = <<>>
               THEN SplitWords(s, i + 1, <<>>)
               ELSE <<cur>> \o SplitWords(s, i + 1, <<>>))
         ELSE SplitWords(s, i + 1, Append(cur, s[i]))

split(s) == SplitWords(s, 1, <<>>)

\* needle in hay
Contains(needle, hay) ==
    \E i \in 0..(Len(hay) - Len(needle)) : SubSeq(hay, i + 1, i + Len(needle)) = needle

RECURSIVE Join(_, _)
Join(words, sep) ==
    IF words = <<>> THEN <<>>
    ELSE IF Len(words) = 1 THEN words[1]
    ELSE words[1] \o sep \o Join(Tail(words), sep)

----------------------------------------------------------------------------
(* Follow-up policy: AIInterviewer.should_ask_followup *)

should_ask_followup_le(answer_text, expected_topics) ==
    IF Len(answer_text) = 0 \/ Len(split(answer_text)) < 10
    THEN TRUE
    ELSE LET answer_lower == lower(answer_text)
             topics_covered ==
                 Cardinality({i \in 1..Len(expected_topics) :
                                 Contains(lower(expected_topics[i]), answer_lower)})
         IN  2 * topics_covered <= Len(expected_topics)

should_ask_followup(answer_text, expected_topics) ==
    IF Len(answer_text) = 0 \/ Len(split(answer_text)) < 10
    THEN TRUE
    ELSE LET answer_lower == lower(answer_text)
             topics_covered ==
                 Cardinality({i \in 1..Len(expected_topics) :
                                 Contains(lower(expected_topics[i]), answer_lower)})
         IN  IF 2 * topics_covered < Len(expected_topics) THEN TRUE ELSE FALSE

----------------------------------------------------------------------------
(* Identities *)

\* f"session_{datetime.utcnow().strftime('%Y%m%d_%H%M%S')}": one identity per second
session_id_at(t) == <<"session_", t>>

\* helpers.generate_question_id: f"{session_id}_q{question_number}"
generate_question_id(session_id, question_number) ==
    session_id \o <<"_q", question_number>>

\* the identity generate_question gives: f"q_{questions_asked + 1}"
question_id_reuse(questions_asked) == <<"q_", 1>>

question_id(questions_asked) == <<"q_", questions_asked + 1>>

----------------------------------------------------------------------------
(* Records of schemas.py.  The timestamp of a Question and of an Answer is  *)
(* written once by its default factory and read by no handler or service;   *)
(* the records here carry the fields the program reads.                     *)

QuestionType == {"initial", "follow_up", "clarification", "deep_dive"}
SessionStatus == {"active", "completed", "paused"}

InterviewSession(session_id, student_name, project_title, start_time) ==
    [session_id      |-> session_id,
     student_name    |-> student_name,
     project_title   |-> project_title,
     start_time      |-> start_time,
     end_time        |-> None,
     status          |-> "active",
     screen_contents |-> <<>>,
     audio_segments  |-> <<>>,
     questions       |-> <<>>,
     answers         |-> <<>>,
     evaluation      |-> None]

ScreenContent(extracted_text, content_type, metadata) ==
    [extracted_text |-> extracted_text,
     content_type   |-> content_type,
     image_data     |-> None,
     metadata       |-> metadata]

Answer(question_id_, answer_text) ==
    [question_id |-> question_id_,
     answer_text |-> answer_text,
     duration    |-> 0]

----------------------------------------------------------------------------
(* Question generation: AIInterviewer.generate_question *)

T_challenges == <<"c", "h", "a", "l", "l", "e", "n", "g", "e", "s">>
T_problem_solving ==
    <<"p", "r", "o", "b", "l", "e", "m", "-", "s", "o", "l", "v", "i", "n", "g">>

FallbackText == "Can you explain the main technical challenge you faced in this project?"
FallbackTopics == <<T_challenges, T_problem_solving>>

\* what the backend call and the parsing of its text come to
BackendFailure ==
    [ok |-> FALSE, question_text |-> "", context |-> None, expected_topics |-> <<>>]
BackendQuestion(topics) ==
    [ok |-> TRUE, question_text |-> "generated", context |-> Some("why"),
     expected_topics |-> topics]

generate_question_keep_type(session, question_type, backend) ==
    LET questions_asked == Len(session.questions)
    IN  IF backend.ok
        THEN [id              |-> question_id(questions_asked),
              question_text   |-> backend.question_text,
              question_type   |-> question_type,
              context         |-> backend.context,
              expected_topics |-> backend.expected_topics]
        ELSE [id              |-> question_id(questions_asked),
              question_text   |-> FallbackText,
              question_type   |-> question_type,
              context         |-> Some("Fallback question"),
              expected_topics |-> FallbackTopics]

generate_question(session, question_type, backend) ==
    LET questions_asked == Len(session.questions)
    IN  IF backend.ok
        THEN [id              |-> question_id(questions_asked),
              question_text   |-> backend.question_text,
              question_type   |-> question_type,
              context         |-> backend.context,
              expected_topics |-> backend.expected_topics]
        ELSE [id              |-> question_id(questions_asked),
              question_text   |-> FallbackText,
              question_type   |-> "initial",
              context         |-> Some("Fallback question"),
              expected_topics |-> FallbackTopics]

----------------------------------------------------------------------------
(* Evaluation: EvaluatorService.  A score is an integer number of points,    *)
(* an overall score is in hundredths of a point (the weights are in          *)
(* hundredths), a duration is in tenths of a second.                         *)

AudioSegment(transcription, duration) ==
    [transcription |-> transcription, duration |-> duration, confidence |-> None]

\* schemas.EvaluationScore without its bounds
EvaluationScoreValid_none(score) == TRUE

\* schemas.EvaluationScore: Field(..., ge=0, le=100) on each of the five scores
EvaluationScoreValid(score) ==
    /\ \A d \in {"technical_depth", "clarity", "originality", "understanding"} :
          0 <= score[d] /\ score[d] <= 100
    /\ 0 <= score.overall_score /\ score.overall_score <= 100 * 100

\* sum(seg.duration for seg in session.audio_segments)
audio_duration(session) ==
    SumSeq([i \in 1..Len(session.audio_segments) |-> session.audio_segments[i].duration])

EVALUATION_WEIGHTS_swapped ==
    [technical_depth |-> 25, clarity |-> 30, originality |-> 25, understanding |-> 20]

EVALUATION_WEIGHTS ==
    [technical_depth |-> 30, clarity |-> 25, originality |-> 25, understanding |-> 20]

DefaultFeedback ==
    [strengths       |-> <<"Completed the presentation", "Answered questions">>,
     improvements    |-> <<"Could not generate detailed evaluation">>,
     specific_notes  |-> [error |-> "Automatic evaluation unavailable"],
     recommendations |-> <<"Review the recording for self-assessment">>]

\* _create_default_evaluation with a question count of its own
_create_default_evaluation_no_count(session) ==
    [session_id      |-> session.session_id,
     score           |-> [technical_depth |-> 70, clarity |-> 70, originality |-> 70,
                          understanding |-> 70, overall_score |-> 70 * 100],
     feedback        |-> DefaultFeedback,
     total_questions |-> 0,
     total_duration  |-> audio_duration(session)]

_create_default_evaluation(session) ==
    [session_id      |-> session.session_id,
     score           |-> [technical_depth |-> 70, clarity |-> 70, originality |-> 70,
                          understanding |-> 70, overall_score |-> 70 * 100],
     feedback        |-> DefaultFeedback,
     total_questions |-> Len(session.questions),
     total_duration  |-> audio_duration(session)]

\* what the backend call and the parsing of its text come to
EvaluationFailure ==
    [ok |-> FALSE,
     scores   |-> [technical_depth |-> 0, clarity |-> 0, originality |-> 0,
                   understanding |-> 0],
     feedback |-> DefaultFeedback]
EvaluationPayload(t, c, o, u) ==
    [ok |-> TRUE,
     scores   |-> [technical_depth |-> t, clarity |-> c, originality |-> o,
                   understanding |-> u],
     feedback |-> [strengths       |-> <<"s1">>,
                   improvements    |-> <<"i1">>,
                   specific_notes  |-> [technical |-> "n1"],
                   recommendations |-> <<"r1">>]]

\* evaluate_session answering with the Evaluation the session already holds
evaluate_session_cached(session, backend) ==
    IF session.evaluation # None
    THEN session.evaluation[1]
    ELSE _create_default_evaluation(session)

evaluate_session(session, backend) ==
    IF ~backend.ok
    THEN _create_default_evaluation(session)
    ELSE LET scores == backend.scores
             overall_score ==
                 scores.technical_depth * EVALUATION_WEIGHTS.technical_depth
                 + scores.clarity * EVALUATION_WEIGHTS.clarity
                 + scores.originality * EVALUATION_WEIGHTS.originality
                 + scores.understanding * EVALUATION_WEIGHTS.understanding
             score == [technical_depth |-> scores.technical_depth,
                       clarity         |-> scores.clarity,
                       originality     |-> scores.originality,
                       understanding   |-> scores.understanding,
                       overall_score   |-> overall_score]
             duration ==
                 IF session.end_time # None
                 THEN (session.end_time[1] - session.start_time) * 10
                 ELSE audio_duration(session)
         IN  IF EvaluationScoreValid(score)
             THEN [session_id      |-> session.session_id,
                   score           |-> score,
                   feedback        |-> backend.feedback,
                   total_questions |-> Len(session.questions),
                   total_duration  |-> duration]
             ELSE _create_default_evaluation(session)

----------------------------------------------------------------------------
(* Context assembly: AIInterviewer._build_context and                        *)
(* EvaluatorService._prepare_evaluation_context. Every text here, the        *)
(* content type included, is a sequence of characters.                       *)

\* str.upper()
upper(s) ==
    LET ascii_lowercase ==
            <<"a", "b", "c", "d", "e", "f", "g", "h", "i", "j", "k", "l", "m",
              "n", "o", "p", "q", "r", "s", "t", "u", "v", "w", "x", "y", "z">>
        ascii_uppercase ==
            <<"A", "B", "C", "D", "E", "F", "G", "H", "I", "J", "K", "L", "M",
              "N", "O", "P", "Q", "R", "S", "T", "U", "V", "W", "X", "Y", "Z">>
    IN  [i \in 1..Len(s) |->
            IF \E k \in 1..26 : ascii_lowercase[k] = s[i]
            THEN ascii_uppercase[CHOOSE k \in 1..26 : ascii_lowercase[k] = s[i]]
            ELSE s[i]]

DecimalDigits == <<"0", "1", "2", "3", "4", "5", "6", "7", "8", "9">>

\* the decimal text of a natural number, as an f-string formats it
RECURSIVE str(_)
str(n) ==
    IF n < 10 THEN <<DecimalDigits[n + 1]>>
    ELSE str(n \div 10) \o <<DecimalDigits[(n % 10) + 1]>>

\* the slice s[:n] taken from the other end, s[-n:]
head_slice_from_end(s, n) == SubSeq(s, IF Len(s) > n THEN Len(s) - n + 1 ELSE 1, Len(s))

\* the slice s[:n]
head_slice(s, n) == SubSeq(s, 1, IF Len(s) > n THEN n ELSE Len(s))

\* the slice s[-n:] taken from the other end, s[:n]
tail_slice_from_start(s, n) == SubSeq(s, 1, IF Len(s) > n THEN n ELSE Len(s))

\* the slice s[-n:]
tail_slice(s, n) == SubSeq(s, IF Len(s) > n THEN Len(s) - n + 1 ELSE 1, Len(s))

\* the last answer of the session to question q, if there is one
first_answer_last(session, q) ==
    LET matching == {i \in 1..Len(session.answers) :
                        session.answers[i].question_id = q.id}
    IN  IF matching = {} THEN None
        ELSE Some(session.answers[CHOOSE i \in matching : \A j \in matching : j <= i])

\* next((a for a in session.answers if a.question_id == q.id), None)
first_answer(session, q) ==
    LET matching == {i \in 1..Len(session.answers) :
                        session.answers[i].question_id = q.id}
    IN  IF matching = {} THEN None ELSE Some(session.answers[Min(matching)])

\* the elements of a list that a comprehension with a condition keeps
RECURSIVE SelectList(_, _)
SelectList(s, keep) ==
    IF s = <<>> THEN <<>>
    ELSE (IF keep[1] THEN <<Head(s)>> ELSE <<>>) \o SelectList(Tail(s), Tail(keep))

\* the literal pieces of the f-string templates of the two assemblers
Templates ==
    [Project |->
        <<"P", "r", "o", "j", "e", "c", "t", ":", " ">>,
     RecentScreenContent |->
        <<"\n", "R", "e", "c", "e", "n", "t", " ", "S", "c", "r", "e", "e", "n", " ", "C", "o", "n", "t", "e", "n", "t", ":", "\n">>,
     RecentSpeech |->
        <<"\n", "S", "t", "u", "d", "e", "n", "t", "'", "s", " ", "R", "e", "c", "e", "n", "t", " ", "S", "p", "e", "e", "c", "h", ":", "\n">>,
     PreviousQA |->
        <<"\n", "P", "r", "e", "v", "i", "o", "u", "s", " ", "Q", "&", "A", ":", "\n">>,
     Q |->
        <<"Q", ":", " ">>,
     A |->
        <<"\n", "A", ":", " ">>,
     Ellipsis |->
        <<".", ".", ".">>,
     Student |->
        <<"S", "t", "u", "d", "e", "n", "t", ":", " ">>,
     NotSpecified |->
        <<"N", "o", "t", " ", "s", "p", "e", "c", "i", "f", "i", "e", "d">>,
     Anonymous |->
        <<"A", "n", "o", "n", "y", "m", "o", "u", "s">>,
     Overview |->
        <<"\n", "P", "r", "e", "s", "e", "n", "t", "a", "t", "i", "o", "n", " ", "O", "v", "e", "r", "v", "i", "e", "w", ":">>,
     TotalScreens |->
        <<"-", " ", "T", "o", "t", "a", "l", " ", "s", "c", "r", "e", "e", "n", "s", " ", "s", "h", "a", "r", "e", "d", ":", " ">>,
     CodeDemonstrations |->
        <<"-", " ", "C", "o", "d", "e", " ", "d", "e", "m", "o", "n", "s", "t", "r", "a", "t", "i", "o", "n", "s", ":", " ">>,
     QuestionsAnswered |->
        <<"-", " ", "Q", "u", "e", "s", "t", "i", "o", "n", "s", " ", "a", "n", "s", "w", "e", "r", "e", "d", ":", " ">>,
     KeyContent |->
        <<"\n", "K", "e", "y", " ", "C", "o", "n", "t", "e", "n", "t", " ", "S", "h", "o", "w", "n", ":">>,
     InterviewQA |->
        <<"\n", "I", "n", "t", "e", "r", "v", "i", "e", "w", " ", "Q", "&", "A", ":">>,
     NQ |->
        <<"\n", "Q", ":", " ">>,
     EA |->
        <<"A", ":", " ">>]

\* a content type of schemas.ScreenContent
T_code == <<"c", "o", "d", "e">>

\* AIInterviewer._build_context
_build_context(session) ==
    LET project ==
            IF session.project_title # None /\ session.project_title[1] # <<>>
            THEN <<Templates.Project \o session.project_title[1]>>
            ELSE <<>>
        recent_screens == tail_slice(session.screen_contents, 5)
        screen_summary ==
            Join([i \in 1..Len(recent_screens) |->
                     <<"[">> \o upper(recent_screens[i].content_type) \o <<"]", " ">>
                     \o head_slice(recent_screens[i].extracted_text, 200)
                     \o Templates.Ellipsis],
                 <<"\n">>)
        screens ==
            IF session.screen_contents # <<>>
            THEN <<Templates.RecentScreenContent \o screen_summary>>
            ELSE <<>>
        recent_audio == tail_slice(session.audio_segments, 5)
        audio_summary ==
            Join([i \in 1..Len(recent_audio) |-> recent_audio[i].transcription],
                 <<" ">>)
        audio ==
            IF session.audio_segments # <<>>
            THEN <<Templates.RecentSpeech \o audio_summary>>
            ELSE <<>>
        last_questions == tail_slice(session.questions, 3)
        qa_pairs ==
            SelectList(
                [i \in 1..Len(last_questions) |->
                    LET answer == first_answer(session, last_questions[i])
                    IN  IF answer = None THEN <<>>
                        ELSE Templates.Q \o last_questions[i].question_text
                             \o Templates.A \o answer[1].answer_text],
                [i \in 1..Len(last_questions) |->
                    first_answer(session, last_questions[i]) # None])
        qa ==
            IF session.questions # <<>> /\ session.answers # <<>> /\ qa_pairs # <<>>
            THEN <<Templates.PreviousQA \o Join(qa_pairs, <<"\n", "\n">>)>>
            ELSE <<>>
        context_parts == project \o screens \o audio \o qa
    IN  Join(context_parts, <<"\n", "\n">>)

\* EvaluatorService._prepare_evaluation_context
_prepare_evaluation_context(session) ==
    LET project_title ==
            IF session.project_title # None /\ session.project_title[1] # <<>>
            THEN session.project_title[1] ELSE Templates.NotSpecified
        student_name ==
            IF session.student_name # None /\ session.student_name[1] # <<>>
            THEN session.student_name[1] ELSE Templates.Anonymous
        total_screens == Len(session.screen_contents)
        code_screens ==
            Cardinality({i \in 1..Len(session.screen_contents) :
                            session.screen_contents[i].content_type = T_code})
        overview ==
            <<Templates.Project \o project_title,
              Templates.Student \o student_name,
              Templates.Overview,
              Templates.TotalScreens \o str(total_screens),
              Templates.CodeDemonstrations \o str(code_screens),
              Templates.QuestionsAnswered \o str(Len(session.answers))>>
        key_screens == head_slice(session.screen_contents, 10)
        screens ==
            IF session.screen_contents # <<>>
            THEN <<Templates.KeyContent>> \o
                 [i \in 1..Len(key_screens) |->
                     str(i) \o <<".", " ", "[">> \o key_screens[i].content_type
                     \o <<"]", " ">>
                     \o head_slice(key_screens[i].extracted_text, 150)
                     \o Templates.Ellipsis]
            ELSE <<>>
        RECURSIVE qa_lines(_)
        qa_lines(questions) ==
            IF questions = <<>> THEN <<>>
            ELSE LET q == Head(questions)
                     answer == first_answer(session, q)
                 IN  (IF answer = None THEN <<>>
                      ELSE <<Templates.NQ \o q.question_text,
                             Templates.EA \o answer[1].answer_text>>)
                     \o qa_lines(Tail(questions))
        qa ==
            IF session.questions # <<>> /\ session.answers # <<>>
            THEN <<Templates.InterviewQA>> \o qa_lines(session.questions)
            ELSE <<>>
        context_parts == overview \o screens \o qa
    IN  Join(context_parts, <<"\n">>)

----------------------------------------------------------------------------
(* The store: helpers.SessionManager *)

\* The manager is written for sessions that are dicts (Dict[str, Any]) while
\* start_session stores an InterviewSession object: a dict is kept as Dict(m),
\* m the mapping from its keys to their values.
Dict(m) == [dict |-> m]
IsDict(x) == DOMAIN x = {"dict"}

\* dict.get(key): the value, or None for a missing key
DictGet(d, key) == IF key \in DOMAIN d.dict THEN Some(d.dict[key]) ELSE None

\* dict.update(updates)
DictUpdate(d, updates) ==
    Dict([k \in DOMAIN d.dict \cup DOMAIN updates |->
            IF k \in DOMAIN updates THEN updates[k] ELSE d.dict[k]])

\* f"session_{uuid.uuid4().hex[:12]}", u the twelve hexadecimal digits drawn
generate_session_id(u) == <<"session_", "uuid", u>>

get_session(session_id) ==
    IF session_id \in DOMAIN sessions THEN Some(sessions[session_id]) ELSE None

Put(store, k, v) == [x \in DOMAIN store \cup {k} |-> IF x = k THEN v ELSE store[x]]

\* a deletion that deletes nothing
Remove_none(store, S) == store

\* del self.sessions[session_id]
Remove(store, S) == [x \in DOMAIN store \ S |-> store[x]]

\* an exception that leaves a manager method
Raised(op, exception) == [op |-> op, status |-> 0, raised |-> exception]

\* SessionManager.create_session; u is the outcome of uuid4
create_session(session_data, u) ==
    LET session_id == generate_session_id(u)
    IN  /\ sessions' = Put(sessions, session_id, session_data)
        /\ resp' = [op |-> "create_session", status |-> 0, session_id |-> session_id]
        /\ UNCHANGED now

\* SessionManager.update_session; an InterviewSession has no update method
update_session(session_id, updates) ==
    /\ UNCHANGED now
    /\ IF session_id \in DOMAIN sessions
       THEN IF IsDict(sessions[session_id])
            THEN /\ sessions' = [sessions EXCEPT
                        ![session_id] = DictUpdate(@, updates)]
                 /\ resp' = [op |-> "update_session", status |-> 0, result |-> TRUE]
            ELSE /\ resp' = Raised("update_session", "AttributeError")
                 /\ UNCHANGED sessions
       ELSE /\ resp' = [op |-> "update_session", status |-> 0, result |-> FALSE]
            /\ UNCHANGED sessions

\* the sessions cleanup_old_sessions collects in to_delete (helpers.py 97-102)
to_delete(max_age_seconds) ==
    {session_id \in DOMAIN sessions :
        LET start_time == DictGet(sessions[session_id], "start_time")
        IN  /\ start_time # None
            /\ now - start_time[1] > max_age_seconds}

\* SessionManager.cleanup_old_sessions; session_data.get raises on the first
\* InterviewSession met, before anything is deleted
cleanup_old_sessions(max_age_seconds) ==
    /\ UNCHANGED now
    /\ IF \E session_id \in DOMAIN sessions : ~IsDict(sessions[session_id])
       THEN /\ resp' = Raised("cleanup_old_sessions", "AttributeError")
            /\ UNCHANGED sessions
       ELSE /\ sessions' = Remove(sessions, to_delete(max_age_seconds))
            /\ resp' = [op |-> "cleanup_old_sessions", status |-> 0,
                        max_age_seconds |-> max_age_seconds]

----------------------------------------------------------------------------
(* Request handlers of main.py *)

HTTPException(op, status_code, detail) ==
    [op |-> op, status |-> status_code, detail |-> detail]

\* a handler reads or writes an attribute of a session that is a dict: the
\* AttributeError is caught by `except Exception` and answered 500
AttributeError500(op) == HTTPException(op, 500, "AttributeError")

\* POST /api/session/start
start_session(student_name, project_title) ==
    LET sid == session_id_at(now)
        session == InterviewSession(sid, student_name, project_title, now)
    IN  /\ sessions' = Put(sessions, sid, session)
        /\ resp' = [op |-> "start_session", status |-> 200, session_id |-> sid]
        /\ UNCHANGED now

\* the first answer of the session's last question, if it has one (main.py 184-185)
last_answer_of(session) ==
    LET last_question == session.questions[Len(session.questions)]
        matching == {i \in 1..Len(session.answers) :
                        session.answers[i].question_id = last_question.id}
    IN  IF matching = {} THEN None ELSE Some(session.answers[Min(matching)])

\* main.py 180-191 with the follow-up on whenever the flag is set
select_question_type_no_policy(session, include_follow_up) ==
    IF Len(session.questions) > 0 /\ include_follow_up
    THEN "follow_up"
    ELSE "initial"

\* main.py 180-191 without the len(session.questions) > 0 test
select_question_type_no_first(session, include_follow_up) ==
    IF include_follow_up /\ Len(session.questions) = 0
    THEN "follow_up"
    ELSE "initial"

\* main.py 180-191 asking for a clarification where the policy says yes
select_question_type_clarification(session, include_follow_up) ==
    IF Len(session.questions) > 0 /\ include_follow_up
    THEN LET last_question == session.questions[Len(session.questions)]
             last_answer == last_answer_of(session)
         IN  IF /\ last_answer # None
                /\ should_ask_followup(last_answer[1].answer_text,
                                       last_question.expected_topics)
             THEN "clarification"
             ELSE "initial"
    ELSE "initial"

\* main.py 180-191
select_question_type(session, include_follow_up) ==
    IF Len(session.questions) > 0 /\ include_follow_up
    THEN LET last_question == session.questions[Len(session.questions)]
             last_answer == last_answer_of(session)
         IN  IF /\ last_answer # None
                /\ should_ask_followup(last_answer[1].answer_text,
                                       last_question.expected_topics)
             THEN "follow_up"
             ELSE "initial"
    ELSE "initial"

\* the capacity test of main.py 177
at_capacity_off_by_one(session) == Len(session.questions) > MAX_QUESTIONS

at_capacity(session) == Len(session.questions) >= MAX_QUESTIONS

\* POST /api/interview/question
get_next_question(session_id, include_follow_up, backend) ==
    /\ UNCHANGED now
    /\ IF get_session(session_id) = None
       THEN /\ resp' = HTTPException("get_next_question", 404, "Session not found")
            /\ UNCHANGED sessions
       ELSE IF IsDict(sessions[session_id])
       THEN /\ resp' = AttributeError500("get_next_question")
            /\ UNCHANGED sessions
       ELSE LET session == sessions[session_id]
            IN  IF at_capacity(session)
                THEN /\ resp' = HTTPException("get_next_question", 400,
                                              "Maximum questions reached")
                     /\ UNCHANGED sessions
                ELSE LET question_type == select_question_type(session, include_follow_up)
                         question == generate_question(session, question_type, backend)
                     IN  /\ sessions' = [sessions EXCEPT
                                ![session_id].questions = Append(@, question)]
                         /\ resp' = [op |-> "get_next_question", status |-> 200,
                                     question |-> question,
                                     total_questions_asked |-> Len(session.questions) + 1]

\* the question lookup of main.py 222
question_exists_any(session, question_id_) == TRUE

question_exists(session, question_id_) ==
    \E i \in 1..Len(session.questions) : session.questions[i].id = question_id_

\* POST /api/interview/answer
submit_answer(session_id, question_id_, answer_text) ==
    /\ UNCHANGED now
    /\ IF get_session(session_id) = None
       THEN /\ resp' = HTTPException("submit_answer", 404, "Session not found")
            /\ UNCHANGED sessions
       ELSE IF IsDict(sessions[session_id])
       THEN /\ resp' = AttributeError500("submit_answer")
            /\ UNCHANGED sessions
       ELSE LET session == sessions[session_id]
            IN  IF ~question_exists(session, question_id_)
                THEN /\ resp' = HTTPException("submit_answer", 404, "Question not found")
                     /\ UNCHANGED sessions
                ELSE /\ sessions' = [sessions EXCEPT
                            ![session_id].answers =
                                Append(@, Answer(question_id_, answer_text))]
                     /\ resp' = [op |-> "submit_answer", status |-> 200, success |-> TRUE]

\* what OCRService.analyze_screen returns
OcrFailure ==
    [success |-> FALSE, extracted_text |-> "", content_type |-> "error",
     metadata |-> <<>>]
OcrResult(extracted_text, content_type) ==
    [success |-> TRUE, extracted_text |-> extracted_text,
     content_type |-> content_type, metadata |-> <<>>]

\* POST /api/screen/analyze without the test of result["success"]
analyze_screen_unchecked(session_id, result) ==
    /\ UNCHANGED now
    /\ IF get_session(session_id) = None
       THEN /\ resp' = HTTPException("analyze_screen", 404, "Session not found")
            /\ UNCHANGED sessions
       ELSE IF IsDict(sessions[session_id])
       THEN /\ resp' = AttributeError500("analyze_screen")
            /\ UNCHANGED sessions
       ELSE LET screen_content ==
                    ScreenContent(result.extracted_text, result.content_type,
                                  result.metadata)
            IN  /\ sessions' = [sessions EXCEPT
                       ![session_id].screen_contents = Append(@, screen_content)]
                /\ resp' = [op |-> "analyze_screen", status |-> 200,
                            content_type |-> result.content_type,
                            text_length |-> Len(result.extracted_text)]

\* POST /api/screen/analyze with one screen_contents list behind every session
analyze_screen_shared(session_id, result) ==
    /\ UNCHANGED now
    /\ IF get_session(session_id) = None
       THEN /\ resp' = HTTPException("analyze_screen", 404, "Session not found")
            /\ UNCHANGED sessions
       ELSE IF ~result.success
       THEN /\ resp' = HTTPException("analyze_screen", 400, "OCR analysis failed")
            /\ UNCHANGED sessions
       ELSE IF IsDict(sessions[session_id])
       THEN /\ resp' = AttributeError500("analyze_screen")
            /\ UNCHANGED sessions
       ELSE LET screen_content ==
                    ScreenContent(result.extracted_text, result.content_type,
                                  result.metadata)
            IN  /\ sessions' = [sid \in DOMAIN sessions |->
                       IF IsDict(sessions[sid])
                       THEN sessions[sid]
                       ELSE [sessions[sid] EXCEPT
                                !.screen_contents = Append(@, screen_content)]]
                /\ resp' = [op |-> "analyze_screen", status |-> 200,
                            content_type |-> result.content_type,
                            text_length |-> Len(result.extracted_text)]

\* POST /api/screen/analyze
analyze_screen(session_id, result) ==
    /\ UNCHANGED now
    /\ IF get_session(session_id) = None
       THEN /\ resp' = HTTPException("analyze_screen", 404, "Session not found")
            /\ UNCHANGED sessions
       ELSE IF ~result.success
       THEN /\ resp' = HTTPException("analyze_screen", 400, "OCR analysis failed")
            /\ UNCHANGED sessions
       ELSE IF IsDict(sessions[session_id])
       THEN /\ resp' = AttributeError500("analyze_screen")
            /\ UNCHANGED sessions
       ELSE LET screen_content ==
                    ScreenContent(result.extracted_text, result.content_type,
                                  result.metadata)
            IN  /\ sessions' = [sessions EXCEPT
                       ![session_id].screen_contents = Append(@, screen_content)]
                /\ resp' = [op |-> "analyze_screen", status |-> 200,
                            content_type |-> result.content_type,
                            text_length |-> Len(result.extracted_text)]

\* what STTService.transcribe returns
SttFailure == [success |-> FALSE, transcription |-> "", duration |-> 0]
SttResult(transcription, duration) ==
    [success |-> TRUE, transcription |-> transcription, duration |-> duration]

\* POST /api/audio/transcribe
transcribe_audio(session_id, result) ==
    /\ UNCHANGED now
    /\ IF get_session(session_id) = None
       THEN /\ resp' = HTTPException("transcribe_audio", 404, "Session not found")
            /\ UNCHANGED sessions
       ELSE IF ~result.success
       THEN /\ resp' = HTTPException("transcribe_audio", 400, "Transcription failed")
            /\ UNCHANGED sessions
       ELSE IF IsDict(sessions[session_id])
       THEN /\ resp' = AttributeError500("transcribe_audio")
            /\ UNCHANGED sessions
       ELSE LET audio_segment == AudioSegment(result.transcription, result.duration)
            IN  /\ sessions' = [sessions EXCEPT
                       ![session_id].audio_segments = Append(@, audio_segment)]
                /\ resp' = [op |-> "transcribe_audio", status |-> 200,
                            transcription |-> result.transcription,
                            duration |-> result.duration]

\* POST /api/session/evaluate releasing the evidence once it is evaluated
main_evaluate_session_release(session_id, backend) ==
    /\ UNCHANGED now
    /\ IF get_session(session_id) = None
       THEN /\ resp' = HTTPException("main.evaluate_session", 404, "Session not found")
            /\ UNCHANGED sessions
       ELSE IF IsDict(sessions[session_id])
       THEN /\ resp' = AttributeError500("main.evaluate_session")
            /\ UNCHANGED sessions
       ELSE LET session == [sessions[session_id] EXCEPT
                               !.status = "completed", !.end_time = Some(now)]
                evaluation == evaluate_session(session, backend)
            IN  /\ sessions' = [sessions EXCEPT ![session_id] =
                                   [session EXCEPT !.evaluation = Some(evaluation),
                                                   !.screen_contents = <<>>,
                                                   !.audio_segments = <<>>]]
                /\ resp' = [op |-> "main.evaluate_session", status |-> 200,
                            evaluation |-> evaluation,
                            session_summary |->
                                [session_id       |-> session.session_id,
                                 duration_minutes |-> <<evaluation.total_duration, 600>>,
                                 questions_asked  |-> evaluation.total_questions,
                                 screens_analyzed |-> Len(session.screen_contents),
                                 overall_score    |-> evaluation.score.overall_score]]

\* POST /api/session/evaluate with an evaluator that consumes the answers
main_evaluate_session_consume(session_id, backend) ==
    /\ UNCHANGED now
    /\ IF get_session(session_id) = None
       THEN /\ resp' = HTTPException("main.evaluate_session", 404, "Session not found")
            /\ UNCHANGED sessions
       ELSE IF IsDict(sessions[session_id])
       THEN /\ resp' = AttributeError500("main.evaluate_session")
            /\ UNCHANGED sessions
       ELSE LET session == [sessions[session_id] EXCEPT
                               !.status = "completed", !.end_time = Some(now)]
                evaluation == evaluate_session(session, backend)
            IN  /\ sessions' = [sessions EXCEPT ![session_id] =
                                   [session EXCEPT !.evaluation = Some(evaluation),
                                                   !.answers = <<>>]]
                /\ resp' = [op |-> "main.evaluate_session", status |-> 200,
                            evaluation |-> evaluation,
                            session_summary |->
                                [session_id       |-> session.session_id,
                                 duration_minutes |-> <<evaluation.total_duration, 600>>,
                                 questions_asked  |-> evaluation.total_questions,
                                 screens_analyzed |-> Len(session.screen_contents),
                                 overall_score    |-> evaluation.score.overall_score]]

\* POST /api/session/evaluate; duration_minutes is total_duration / 60, kept as
\* the pair <<tenths of a second, 600>>
main_evaluate_session(session_id, backend) ==
    /\ UNCHANGED now
    /\ IF get_session(session_id) = None
       THEN /\ resp' = HTTPException("main.evaluate_session", 404, "Session not found")
            /\ UNCHANGED sessions
       ELSE IF IsDict(sessions[session_id])
       THEN /\ resp' = AttributeError500("main.evaluate_session")
            /\ UNCHANGED sessions
       ELSE LET session == [sessions[session_id] EXCEPT
                               !.status = "completed", !.end_time = Some(now)]
                evaluation == evaluate_session(session, backend)
            IN  /\ sessions' = [sessions EXCEPT ![session_id] =
                                   [session EXCEPT !.evaluation = Some(evaluation)]]
                /\ resp' = [op |-> "main.evaluate_session", status |-> 200,
                            evaluation |-> evaluation,
                            session_summary |->
                                [session_id       |-> session.session_id,
                                 duration_minutes |-> <<evaluation.total_duration, 600>>,
                                 questions_asked  |-> evaluation.total_questions,
                                 screens_analyzed |-> Len(session.screen_contents),
                                 overall_score    |-> evaluation.score.overall_score]]

\* GET /api/session/{session_id} handing the session over: the store loses it
main_get_session_pop(session_id) ==
    /\ UNCHANGED now
    /\ IF get_session(session_id) = None
       THEN /\ resp' = HTTPException("main.get_session", 404, "Session not found")
            /\ UNCHANGED sessions
       ELSE /\ resp' = [op |-> "main.get_session", status |-> 200,
                        session |-> sessions[session_id]]
            /\ sessions' = Remove(sessions, {session_id})

\* GET /api/session/{session_id}
main_get_session(session_id) ==
    /\ UNCHANGED <<now, sessions>>
    /\ IF get_session(session_id) = None
       THEN resp' = HTTPException("main.get_session", 404, "Session not found")
       ELSE resp' = [op |-> "main.get_session", status |-> 200,
                     session |-> sessions[session_id]]

\* SessionManager.delete_session: its return value
delete_session(session_id) == session_id \in DOMAIN sessions

\* DELETE /api/session/{session_id} answering 200 whatever the identity
main_delete_session_ok(session_id) ==
    /\ UNCHANGED now
    /\ sessions' = Remove(sessions, {session_id})
    /\ resp' = [op |-> "main.delete_session", status |-> 200, success |-> TRUE]

\* DELETE /api/session/{session_id}
main_delete_session(session_id) ==
    /\ UNCHANGED now
    /\ IF delete_session(session_id)
       THEN /\ sessions' = Remove(sessions, {session_id})
            /\ resp' = [op |-> "main.delete_session", status |-> 200, success |-> TRUE]
       ELSE /\ resp' = HTTPException("main.delete_session", 404, "Session not found")
            /\ UNCHANGED sessions

\* GET /api/sessions
list_sessions ==
    /\ resp' = [op |-> "list_sessions", status |-> 200,
                sessions |-> DOMAIN sessions, count |-> Cardinality(DOMAIN sessions)]
    /\ UNCHANGED <<now, sessions>>

\* a second of wall-clock time passes between two requests
Tick ==
    /\ now < MaxClock
    /\ now' = now + 1
    /\ UNCHANGED <<sessions, resp, loop>>

----------------------------------------------------------------------------
(* The event loop of the server (uvicorn.run, one process)                  *)

\* no handler running, no request waiting, no request answered yet
IdleLoop == [running |-> <<>>, pending |-> <<>>, answered |-> None]

\* a request as the server has received it; during: the handlers that were at
\* their external call, on the same session, when it arrived
Request(op, session_id, include_follow_up) ==
    [op |-> op, session_id |-> session_id, include_follow_up |-> include_follow_up,
     during |-> {}]

\* a handler stopped at its external call: its request, the session object it
\* holds (kept here once the store no longer holds that object) and its locals
Frame(request, session, question_type) ==
    [request |-> request, session |-> session, question_type |-> question_type,
     attached |-> TRUE]

\* the server accepts a connection whatever the loop is doing
loop_receive(request) ==
    /\ loop' = [loop EXCEPT !.pending =
                   Append(@, [request EXCEPT !.during =
                       {loop.running[k].request.op : k \in
                           {j \in 1..Len(loop.running) :
                               loop.running[j].request.session_id = request.session_id}}])]
    /\ UNCHANGED <<sessions, now, resp>>

\* handlers that run in a thread pool next to the loop: deletions
can_run_threadpool(request) ==
    request.op = "main.delete_session" \/ loop.running = <<>>

\* handlers that hand the loop back while their external call is pending
can_run_awaiting(request) == TRUE

\* a loop that starts one more handler while one is at its external call
can_run_second(request) == Len(loop.running) < 2

\* every handler is an `async def` without await and calls its service
\* synchronously: the loop runs one handler to its end before the next
can_run(request) == loop.running = <<>>

\* the loop l without its first waiting request, which has been answered
Answered(l) == [l EXCEPT !.pending = Tail(@), !.answered = Some(Head(l.pending))]

\* the loop l without its first waiting request, whose handler is now running
Running(l, frame) ==
    [l EXCEPT !.pending = Tail(@), !.running = Append(@, frame)]

\* the loop l without its k-th running handler, which has answered
Returned(l, k) ==
    [l EXCEPT !.running = SubSeq(@, 1, k - 1) \o SubSeq(@, k + 1, Len(@)),
              !.answered = Some(l.running[k].request)]

\* the loop l after the store has let go of the session objects of S: the
\* handlers that hold one keep it
Detach(l, S) ==
    [l EXCEPT !.running =
        [k \in 1..Len(l.running) |->
            IF l.running[k].attached /\ l.running[k].request.session_id \in S
            THEN [l.running[k] EXCEPT
                     !.attached = FALSE,
                     !.session = sessions[l.running[k].request.session_id]]
            ELSE l.running[k]]]

\* the request the loop takes next
next_request == Head(loop.pending)

loop_start_session ==
    /\ loop.pending # <<>>
    /\ next_request.op = "start_session"
    /\ can_run(next_request)
    /\ start_session(None, None)
    /\ loop' = Answered(Detach(loop, {session_id_at(now)} \cap DOMAIN sessions))

loop_delete_session ==
    /\ loop.pending # <<>>
    /\ next_request.op = "main.delete_session"
    /\ can_run(next_request)
    /\ main_delete_session(next_request.session_id)
    /\ loop' = Answered(Detach(loop, {next_request.session_id} \cap DOMAIN sessions))

\* get_next_question up to the call of the backend (ai_interviewer.py 107),
\* or to its end when it raises before
loop_begin_get_next_question ==
    /\ loop.pending # <<>>
    /\ next_request.op = "get_next_question"
    /\ can_run(next_request)
    /\ LET session_id == next_request.session_id
       IN  IF \/ get_session(session_id) = None
              \/ IsDict(sessions[session_id])
              \/ at_capacity(sessions[session_id])
           THEN /\ get_next_question(session_id, next_request.include_follow_up,
                                     BackendFailure)
                /\ loop' = Answered(loop)
           ELSE LET session == sessions[session_id]
                    question_type ==
                        select_question_type(session, next_request.include_follow_up)
                IN  /\ loop' = Running(loop, Frame(next_request, session, question_type))
                    /\ UNCHANGED <<sessions, now, resp>>

\* get_next_question from the backend's answer on: the question is built
\* with the questions_asked read before the call and appended to the session
\* object the handler holds
loop_return_get_next_question(k, backend) ==
    /\ k \in 1..Len(loop.running)
    /\ loop.running[k].request.op = "get_next_question"
    /\ LET frame == loop.running[k]
           session_id == frame.request.session_id
           question == generate_question(frame.session, frame.question_type, backend)
           session == IF frame.attached THEN sessions[session_id] ELSE frame.session
       IN  /\ sessions' = IF frame.attached
                          THEN [sessions EXCEPT
                                   ![session_id].questions = Append(@, question)]
                          ELSE sessions
           /\ resp' = [op |-> "get_next_question", status |-> 200,
                       question |-> question,
                       total_questions_asked |-> Len(session.questions) + 1]
    /\ loop' = Returned(loop, k)
    /\ UNCHANGED now

\* analyze_screen up to the call of the OCR service (main.py 98)
loop_begin_analyze_screen ==
    /\ loop.pending # <<>>
    /\ next_request.op = "analyze_screen"
    /\ can_run(next_request)
    /\ LET session_id == next_request.session_id
       IN  IF get_session(session_id) = None
           THEN /\ analyze_screen(session_id, OcrFailure)
                /\ loop' = Answered(loop)
           ELSE /\ loop' = Running(loop, Frame(next_request, sessions[session_id],
                                               "initial"))
                /\ UNCHANGED <<sessions, now, resp>>

\* analyze_screen from the OCR result on
loop_return_analyze_screen(k, result) ==
    /\ k \in 1..Len(loop.running)
    /\ loop.running[k].request.op = "analyze_screen"
    /\ LET frame == loop.running[k]
       IN  IF frame.attached
           THEN analyze_screen(frame.request.session_id, result)
           ELSE /\ resp' = IF ~result.success
                           THEN HTTPException("analyze_screen", 400, "OCR analysis failed")
                           ELSE [op |-> "analyze_screen", status |-> 200,
                                 content_type |-> result.content_type,
                                 text_length |-> Len(result.extracted_text)]
                /\ UNCHANGED <<sessions, now>>
    /\ loop' = Returned(loop, k)

\* evaluate_session up to the call of the backend (evaluator.py 103): status
\* and end_time are written before it
loop_begin_evaluate_session ==
    /\ loop.pending # <<>>
    /\ next_request.op = "main.evaluate_session"
    /\ can_run(next_request)
    /\ LET session_id == next_request.session_id
       IN  IF get_session(session_id) = None \/ IsDict(sessions[session_id])
           THEN /\ main_evaluate_session(session_id, EvaluationFailure)
                /\ loop' = Answered(loop)
           ELSE LET session == [sessions[session_id] EXCEPT
                                   !.status = "completed", !.end_time = Some(now)]
                IN  /\ sessions' = [sessions EXCEPT ![session_id] = session]
                    /\ loop' = Running(loop, Frame(next_request, session, "initial"))
                    /\ UNCHANGED <<now, resp>>

\* evaluate_session from the backend's answer on
loop_return_evaluate_session(k, backend) ==
    /\ k \in 1..Len(loop.running)
    /\ loop.running[k].request.op = "main.evaluate_session"
    /\ LET frame == loop.running[k]
           session_id == frame.request.session_id
           session == IF frame.attached THEN sessions[session_id] ELSE frame.session
           evaluation == evaluate_session(session, backend)
       IN  /\ sessions' = IF frame.attached
                          THEN [sessions EXCEPT
                                   ![session_id].evaluation = Some(evaluation)]
                          ELSE sessions
           /\ resp' = [op |-> "main.evaluate_session", status |-> 200,
                       evaluation |-> evaluation,
                       session_summary |->
                           [session_id       |-> session.session_id,
                            duration_minutes |-> <<evaluation.total_duration, 600>>,
                            questions_asked  |-> evaluation.total_questions,
                            screens_analyzed |-> Len(session.screen_contents),
                            overall_score    |-> evaluation.score.overall_score]]
    /\ loop' = Returned(loop, k)
    /\ UNCHANGED now

\* cleanup_old_sessions has no caller in the program; a scheduler may call it
\* at any moment, whatever the loop is doing
scheduled_cleanup(max_age_seconds) ==
    /\ cleanup_old_sessions(max_age_seconds)
    /\ loop' = Detach(loop, DOMAIN sessions \ DOMAIN sessions')

----------------------------------------------------------------------------
(* Requests the environment sends *)

W_ok == <<"o", "k">>
W_x == <<"x">>
W_ab == <<"a", "b">>
W_AB == <<"A", "B">>
W_c == <<"c">>
Sp == <<" ">>

Filler(k) == [i \in 1..k |-> W_x]

\* "ok"
AnswerShort == W_ok
\* ten words naming both topics, one of them in upper case
AnswerBoth == Join(<<W_AB, W_c>> \o Filler(8), Sp)
\* ten words naming no topic
AnswerNone == Join(Filler(10), Sp)

AnswerTexts == {AnswerShort, AnswerBoth}

TopicsAB == <<W_ab, W_c>>
BackendOutcomes == {BackendFailure, BackendQuestion(TopicsAB)}

SessionIdsAsked == {session_id_at(t) : t \in 0..MaxClock}
QuestionIdsAsked == {question_id(k) : k \in 0..MaxAsk}

NoResp == [op |-> "none", status |-> 0]

Init ==
    /\ sessions = <<>>
    /\ now = 0
    /\ loop = IdleLoop
    /\ resp = NoResp

RECURSIVE Total(_, _)
Total(S, field) ==
    IF S = {} THEN 0
    ELSE LET k == CHOOSE x \in S : TRUE
         IN  Len(sessions[k][field]) + Total(S \ {k}, field)

(* Spec: sessions started in different seconds, a few questions and answers *)

AskAllowed == Total(DOMAIN sessions, "questions") < MaxAsk
AnswerAllowed == Total(DOMAIN sessions, "answers") < MaxAnswers

Next ==
    \/ start_session(None, None) /\ UNCHANGED loop
    \/ \E sid \in SessionIdsAsked, flag \in BOOLEAN, backend \in BackendOutcomes :
          /\ AskAllowed
          /\ get_next_question(sid, flag, backend)
          /\ UNCHANGED loop
    \/ \E sid \in SessionIdsAsked, qid \in QuestionIdsAsked, text \in AnswerTexts :
          /\ AnswerAllowed
          /\ submit_answer(sid, qid, text)
          /\ UNCHANGED loop
    \/ Tick

Spec == Init /\ [][Next]_vars

(* SpecCycle: one second, so one session identity; a longer question/answer *)
(* cycle with every kind of answer and of backend payload                    *)

CycleAnswerTexts == {AnswerShort, AnswerBoth, AnswerNone}
CycleBackendOutcomes ==
    {BackendFailure, BackendQuestion(TopicsAB), BackendQuestion(<<>>)}
CycleQuestionIdsAsked == {question_id(k) : k \in 0..MaxCycleAsk}

NextCycle ==
    \/ start_session(None, None) /\ UNCHANGED loop
    \/ \E flag \in BOOLEAN, backend \in CycleBackendOutcomes :
          /\ Total(DOMAIN sessions, "questions") < MaxCycleAsk
          /\ get_next_question(session_id_at(0), flag, backend)
          /\ UNCHANGED loop
    \/ \E qid \in CycleQuestionIdsAsked, text \in CycleAnswerTexts :
          /\ Total(DOMAIN sessions, "answers") < MaxCycleAnswers
          /\ submit_answer(session_id_at(0), qid, text)
          /\ UNCHANGED loop

SpecCycle == Init /\ [][NextCycle]_vars

(* SpecCap: one session asked for questions until the program refuses; the *)
(* environment answers the question asked last, or one not asked yet        *)

CapQuestionIdsAsked ==
    LET n == Total(DOMAIN sessions, "questions")
    IN  {question_id(k) : k \in {n - 1, n} \cap 0..MAX_QUESTIONS}

NextCap ==
    \/ start_session(None, None) /\ UNCHANGED loop
    \/ \E flag \in BOOLEAN, backend \in BackendOutcomes :
          /\ get_next_question(session_id_at(0), flag, backend)
          /\ UNCHANGED loop
    \/ \E qid \in CapQuestionIdsAsked :
          /\ Total(DOMAIN sessions, "answers") < MaxCapAnswers
          /\ submit_answer(session_id_at(0), qid, AnswerShort)
          /\ UNCHANGED loop

SpecCap == Init /\ [][NextCap]_vars

(* SpecScore: evaluate_session applied to a session and a backend outcome *)

ScoreValues == {0 - 1, 0, 60, 70, 80, 90, 100, 101}

ScoreBackendOutcomes ==
    {EvaluationFailure}
    \cup {EvaluationPayload(t, c, o, u) :
            t \in ScoreValues, c \in ScoreValues, o \in ScoreValues, u \in ScoreValues}

\* sessions as the handlers leave them: started at second 0, with or without
\* a question, audio segments of 2.5 s, and an end time or none
ScoreSessions ==
    {[InterviewSession(session_id_at(0), None, None, 0) EXCEPT
          !.questions = qs, !.audio_segments = au, !.end_time = e] :
        qs \in {<<>>, <<generate_question(InterviewSession(session_id_at(0), None, None, 0),
                                          "initial", BackendFailure)>>},
        au \in SeqsUpTo({AudioSegment("t", 25)}, MaxAudio),
        e \in {None, Some(1)}}

InitScore ==
    /\ sessions = <<>>
    /\ now = 0
    /\ loop = IdleLoop
    /\ resp \in {[op |-> "evaluate_session", session |-> s, backend |-> b,
                  evaluation |-> None] :
                    s \in ScoreSessions, b \in ScoreBackendOutcomes}

ApplyEvaluate ==
    /\ resp.op = "evaluate_session"
    /\ resp.evaluation = None
    /\ resp' = [resp EXCEPT !.evaluation =
                    Some(evaluate_session(resp.session, resp.backend))]
    /\ UNCHANGED <<sessions, now, loop>>

NextScore == ApplyEvaluate

SpecScore == InitScore /\ [][NextScore]_vars

(* SpecLife: every request handler and the manager's create and update, on  *)
(* a store with one InterviewSession (the clock stays at second 0) and the   *)
(* dicts create_session is handed                                            *)

\* the sessions of the store that are InterviewSession objects
ObjectIds == {k \in DOMAIN sessions : ~IsDict(sessions[k])}

UuidValues == 1..MaxUuid

\* identities requests name: the session of second 0, a dict, and one absent
LifeSessionIds == {session_id_at(0), session_id_at(1), generate_session_id(1)}

\* what the store holds of evidence, questions and answers
LifeItems ==
    Total(ObjectIds, "screen_contents") + Total(ObjectIds, "audio_segments")
    + Total(ObjectIds, "questions") + Total(ObjectIds, "answers")

LifeDicts == {Dict([status |-> "active"])}
LifeUpdates == {[status |-> st] : st \in SessionStatus}

LifeOcrResults == {OcrFailure, OcrResult(<<"d", "e", "f">>, "code")}
LifeSttResults == {SttFailure, SttResult("t", 25)}
LifeEvaluationOutcomes == {EvaluationFailure, EvaluationPayload(80, 70, 90, 60)}

NextLife ==
    \/ start_session(None, None) /\ UNCHANGED loop
    \/ \E d \in LifeDicts : create_session(d, 1) /\ UNCHANGED loop
    \/ \E sid \in LifeSessionIds, r \in LifeOcrResults :
          /\ LifeItems < MaxLifeItems
          /\ analyze_screen(sid, r)
          /\ UNCHANGED loop
    \/ \E sid \in LifeSessionIds, r \in LifeSttResults :
          /\ LifeItems < MaxLifeItems
          /\ transcribe_audio(sid, r)
          /\ UNCHANGED loop
    \/ \E sid \in LifeSessionIds, flag \in BOOLEAN :
          /\ LifeItems < MaxLifeItems
          /\ get_next_question(sid, flag, BackendFailure)
          /\ UNCHANGED loop
    \/ \E sid \in LifeSessionIds, qid \in {question_id(0), question_id(1)} :
          /\ LifeItems < MaxLifeItems
          /\ submit_answer(sid, qid, AnswerShort)
          /\ UNCHANGED loop
    \/ \E sid \in LifeSessionIds, backend \in LifeEvaluationOutcomes :
          /\ main_evaluate_session(sid, backend)
          /\ UNCHANGED loop
    \/ \E sid \in LifeSessionIds : main_get_session(sid) /\ UNCHANGED loop
    \/ \E sid \in LifeSessionIds : main_delete_session(sid) /\ UNCHANGED loop
    \/ list_sessions /\ UNCHANGED loop
    \/ \E sid \in LifeSessionIds, updates \in LifeUpdates :
          /\ update_session(sid, updates)
          /\ UNCHANGED loop

SpecLife == Init /\ [][NextLife]_vars

(* SpecStore: the store over two seconds: sessions started and created,     *)
(* given a question, read, deleted and swept                                *)

StoreSessionIds == {session_id_at(t) : t \in 0..MaxClock} \cup
                   {generate_session_id(u) : u \in UuidValues}

\* session_data of create_session: with the start time of the call, or none
StoreDicts == {Dict([start_time |-> now]), Dict([status |-> "active"])}

StoreMaxAges == {0, 1}

NextStore ==
    \/ \E name \in {None, Some("n")} : start_session(name, None) /\ UNCHANGED loop
    \/ \E d \in StoreDicts, u \in UuidValues : create_session(d, u) /\ UNCHANGED loop
    \/ \E sid \in StoreSessionIds :
          /\ Total(ObjectIds, "questions") < MaxStoreAsk
          /\ get_next_question(sid, TRUE, BackendFailure)
          /\ UNCHANGED loop
    \/ \E sid \in StoreSessionIds : main_get_session(sid) /\ UNCHANGED loop
    \/ \E sid \in StoreSessionIds : main_delete_session(sid) /\ UNCHANGED loop
    \/ \E max_age_seconds \in StoreMaxAges : cleanup_old_sessions(max_age_seconds) /\ UNCHANGED loop
    \/ Tick

SpecStore == Init /\ [][NextStore]_vars

(* SpecDuration: evaluate_session applied to sessions with and without an   *)
(* end time and with audio segments of 1.5, 2.5 and 3.0 seconds              *)

DurationSegments == {AudioSegment("t", d) : d \in {15, 25, 30}}

DurationSessions ==
    {[InterviewSession(session_id_at(0), None, None, 0) EXCEPT
          !.audio_segments = au, !.end_time = e] :
        au \in SeqsUpTo(DurationSegments, MaxDurAudio),
        e \in {None, Some(1)}}

DurationBackendOutcomes == {EvaluationFailure, EvaluationPayload(80, 70, 90, 60)}

InitDuration ==
    /\ sessions = <<>>
    /\ now = 0
    /\ loop = IdleLoop
    /\ resp \in {[op |-> "evaluate_session", session |-> s, backend |-> b,
                  evaluation |-> None] :
                    s \in DurationSessions, b \in DurationBackendOutcomes}

SpecDuration == InitDuration /\ [][NextScore]_vars

(* SpecAgain: evaluate_session applied to a session as the evaluate handler  *)
(* hands it over (Completed, end time set), which may hold the Evaluation of *)
(* an earlier call made when it had fewer questions                           *)

RECURSIVE AgainQuestions(_)
AgainQuestions(n) ==
    IF n = 0 THEN <<>>
    ELSE LET qs == AgainQuestions(n - 1)
             session == [InterviewSession(session_id_at(0), None, None, 0) EXCEPT
                            !.questions = qs]
         IN  Append(qs, generate_question(session, "initial", BackendFailure))

AgainSession(n, earlier) ==
    [InterviewSession(session_id_at(0), None, None, 0) EXCEPT
        !.status = "completed", !.end_time = Some(0),
        !.questions = AgainQuestions(n), !.evaluation = earlier]

AgainBackendOutcomes ==
    {EvaluationFailure, EvaluationPayload(80, 70, 90, 60),
     EvaluationPayload(100, 100, 100, 100)}

AgainSessions ==
    {AgainSession(n, None) : n \in 0..MaxAgainAsk}
    \cup {AgainSession(n, Some(evaluate_session(AgainSession(k, None), b))) :
            n \in 0..MaxAgainAsk, k \in 0..MaxAgainAsk, b \in AgainBackendOutcomes}

InitAgain ==
    /\ sessions = <<>>
    /\ now = 0
    /\ loop = IdleLoop
    /\ resp \in {[op |-> "evaluate_session", session |-> s, backend |-> b,
                  evaluation |-> None] :
                    s \in {x \in AgainSessions :
                              x.evaluation # None
                                  => x.evaluation[1].total_questions <= Len(x.questions)},
                    b \in AgainBackendOutcomes}

SpecAgain == InitAgain /\ [][NextScore]_vars

(* SpecPolicy: should_ask_followup applied to an answer and a topic list *)

W_z == <<"z">>
PolicyPrefixWords == {W_AB, W_ab, W_c}
PolicyTopicWords == {W_ab, W_AB, W_c, W_z, <<>>}
PolicySeparators == {Sp, <<" ", "\t">>}
PolicyPadding == {<<>>, <<"\n">>}

\* answers of 0 to MaxFill + 2 words, with single or double separators and
\* with or without white space around them
PolicyAnswers ==
    {pad \o Join(prefix \o Filler(k), sep) \o pad :
        prefix \in SeqsUpTo(PolicyPrefixWords, 2), k \in 0..MaxFill,
        sep \in PolicySeparators, pad \in PolicyPadding}

PolicyTopics == SeqsUpTo(PolicyTopicWords, MaxTopics)

InitPolicy ==
    /\ sessions = <<>>
    /\ now = 0
    /\ loop = IdleLoop
    /\ resp \in {[op |-> "should_ask_followup", answer_text |-> a,
                  expected_topics |-> t, result |-> None] :
                    a \in PolicyAnswers, t \in PolicyTopics}

ApplyPolicy ==
    /\ resp.op = "should_ask_followup"
    /\ resp.result = None
    /\ resp' = [resp EXCEPT !.result =
                    Some(should_ask_followup(resp.answer_text, resp.expected_topics))]
    /\ UNCHANGED <<sessions, now, loop>>

NextPolicy == ApplyPolicy

SpecPolicy == InitPolicy /\ [][NextPolicy]_vars

(* SpecContext: the two context assemblers applied to sessions with up to    *)
(* MaxCtxScreens screen contents, MaxCtxAudio audio segments and              *)
(* MaxCtxQuestions questions of which any subset is answered                  *)

\* the i-th item of a kind has a text of len characters: the mark of the kind,
\* the index, then digits by position; lengths of a screen text are none,
\* short, and around the two bounds
CtxSessions ==
    LET IndexChars ==
            <<"1", "2", "3", "4", "5", "6", "7", "8", "9",
              "a", "b", "c", "d", "e", "f">>
        CtxText(mark, i, len) ==
            [p \in 1..len |->
                IF p = 1 THEN mark
                ELSE IF p = 2 THEN IndexChars[i] ELSE DecimalDigits[(p % 10) + 1]]
        CtxTextLengths == {0, 2, 149, 150, 151, 199, 200, 201}
        CtxScreens(n, len) ==
            [i \in 1..n |->
                ScreenContent(CtxText("@", i, len),
                              IF i % 2 = 1 THEN T_code
                              ELSE <<"s", "l", "i", "d", "e">>,
                              <<>>)]
        CtxAudio(m) == [i \in 1..m |-> AudioSegment(CtxText("~", i, 2), 10)]
        CtxQuestions(k) ==
            [i \in 1..k |->
                [id              |-> question_id(i - 1),
                 question_text   |-> CtxText("?", i, 2),
                 question_type   |-> "initial",
                 context         |-> None,
                 expected_topics |-> <<>>]]
        \* one answer to each question of A, in question order
        CtxAnswers(k, A) ==
            SelectList([i \in 1..k |-> Answer(question_id(i - 1), CtxText("!", i, 2))],
                       [i \in 1..k |-> i \in A])
        CtxSession(project_title, student_name, screens, audio, questions, answers) ==
            [InterviewSession(session_id_at(0), student_name, project_title, 0) EXCEPT
                !.screen_contents = screens,
                !.audio_segments  = audio,
                !.questions       = questions,
                !.answers         = answers]
    IN  {CtxSession(None, None, CtxScreens(n, 2), <<>>, <<>>, <<>>) :
            n \in 0..MaxCtxScreens}
        \cup {CtxSession(None, None, CtxScreens(n, len), <<>>, <<>>, <<>>) :
                n \in 1..2, len \in CtxTextLengths}
        \cup {CtxSession(None, None, <<>>, CtxAudio(m), <<>>, <<>>) :
                m \in 0..MaxCtxAudio}
        \cup {CtxSession(None, None, <<>>, <<>>, CtxQuestions(k), CtxAnswers(k, A)) :
                k \in 0..MaxCtxQuestions, A \in SUBSET (1..MaxCtxQuestions)}
        \cup {CtxSession(title, name, CtxScreens(6, 2), CtxAudio(MaxCtxAudio),
                         CtxQuestions(MaxCtxQuestions),
                         CtxAnswers(MaxCtxQuestions, {2, MaxCtxQuestions})) :
                title \in {None, Some(<<>>), Some(<<"T">>)},
                name \in {None, Some(<<"N">>)}}
        \* a question answered twice, and answers out of question order
        \cup {CtxSession(None, None, <<>>, <<>>, CtxQuestions(2),
                         <<Answer(question_id(1), CtxText("!", 2, 2)),
                           Answer(question_id(0), CtxText("!", 1, 2)),
                           Answer(question_id(0), CtxText("!", 9, 2))>>)}

InitContext ==
    /\ sessions = <<>>
    /\ now = 0
    /\ loop = IdleLoop
    /\ resp \in {[op |-> "session", session |-> s] : s \in CtxSessions}

ApplyBuildContext ==
    /\ resp.op = "session"
    /\ resp' = [op |-> "_build_context", session |-> resp.session,
                context |-> _build_context(resp.session)]
    /\ UNCHANGED <<sessions, now, loop>>

ApplyPrepareEvaluationContext ==
    /\ resp.op = "session"
    /\ resp' = [op |-> "_prepare_evaluation_context", session |-> resp.session,
                context |-> _prepare_evaluation_context(resp.session)]
    /\ UNCHANGED <<sessions, now, loop>>

NextContext ==
    \/ ApplyBuildContext
    \/ ApplyPrepareEvaluationContext

SpecContext == InitContext /\ [][NextContext]_vars

(* SpecLoop: requests arrive while a handler is at its external call; the   *)
(* loop serves them one handler at a time; one second, so one identity       *)

LoopRequests ==
    {Request("start_session", session_id_at(0), FALSE),
     Request("get_next_question", session_id_at(0), TRUE),
     Request("analyze_screen", session_id_at(0), FALSE),
     Request("main.evaluate_session", session_id_at(0), FALSE),
     Request("main.delete_session", session_id_at(0), FALSE)}

\* what the store holds and what the requests received may still add
LoopWork ==
    Total(ObjectIds, "questions") + Total(ObjectIds, "screen_contents")
    + Len(loop.pending) + Len(loop.running)


NextLoop ==
    \/ \E request \in LoopRequests :
          LoopWork < MaxLoopWork /\ loop_receive(request)
    \/ loop_start_session
    \/ loop_delete_session
    \/ loop_begin_get_next_question
    \/ \E k \in 1..Len(loop.running), backend \in BackendOutcomes :
          loop_return_get_next_question(k, backend)
    \/ loop_begin_analyze_screen
    \/ \E k \in 1..Len(loop.running), result \in LifeOcrResults :
          loop_return_analyze_screen(k, result)
    \/ loop_begin_evaluate_session
    \/ \E k \in 1..Len(loop.running), backend \in LifeEvaluationOutcomes :
          loop_return_evaluate_session(k, backend)
    \/ scheduled_cleanup(0)

SpecLoop == Init /\ [][NextLoop]_vars

(* SpecLoopCap: next-question requests arrive, also while a handler is at   *)
(* its backend call, for a session that has room for a last few questions    *)

\* the session start_session stores at second 0, after n next-question
\* requests that the fallback answered
RECURSIVE SessionAsked(_)
SessionAsked(n) ==
    IF n = 0
    THEN InterviewSession(session_id_at(0), None, None, 0)
    ELSE LET session == SessionAsked(n - 1)
         IN  [session EXCEPT !.questions =
                 Append(@, generate_question(session, "initial", BackendFailure))]

InitLoopCap ==
    /\ \E room \in 1..MaxLoopCapRoom :
          sessions = Put(<<>>, session_id_at(0), SessionAsked(MAX_QUESTIONS - room))
    /\ now = 0
    /\ loop = IdleLoop
    /\ resp = NoResp

NextLoopCap ==
    \/ \E flag \in BOOLEAN :
          /\ Len(loop.pending) + Len(loop.running) < MaxLoopCapRequests
          /\ loop_receive(Request("get_next_question", session_id_at(0), flag))
    \/ loop_begin_get_next_question
    \/ \E k \in 1..Len(loop.running), backend \in BackendOutcomes :
          loop_return_get_next_question(k, backend)

SpecLoopCap == InitLoopCap /\ [][NextLoopCap]_vars

(* SpecPair: two sessions started in different seconds, each given evidence, *)
(* questions and answers, evaluated and deleted                               *)

PairSessionIds == {session_id_at(t) : t \in 0..MaxClock}

NextPair ==
    \/ start_session(None, None) /\ UNCHANGED loop
    \/ \E sid \in PairSessionIds, r \in LifeOcrResults :
          /\ LifeItems < MaxPairItems
          /\ analyze_screen(sid, r)
          /\ UNCHANGED loop
    \/ \E sid \in PairSessionIds, r \in LifeSttResults :
          /\ LifeItems < MaxPairItems
          /\ transcribe_audio(sid, r)
          /\ UNCHANGED loop
    \/ \E sid \in PairSessionIds :
          /\ LifeItems < MaxPairItems
          /\ get_next_question(sid, FALSE, BackendFailure)
          /\ UNCHANGED loop
    \/ \E sid \in PairSessionIds :
          /\ LifeItems < MaxPairItems
          /\ submit_answer(sid, question_id(0), AnswerShort)
          /\ UNCHANGED loop
    \/ \E sid \in PairSessionIds :
          /\ main_evaluate_session(sid, EvaluationFailure)
          /\ UNCHANGED loop
    \/ \E sid \in PairSessionIds : main_delete_session(sid) /\ UNCHANGED loop
    \/ Tick

SpecPair == Init /\ [][NextPair]_vars

----------------------------------------------------------------------------
(* C1: a session never holds more than MAX_QUESTIONS questions, and a        *)
(* request for the next question made when the session already holds         *)
(* MAX_QUESTIONS of them is answered 400 "Maximum questions reached", with   *)
(* no question in the response and the store left as it was.                 *)

C1_QuestionCap ==
    [][ /\ \A sid \in DOMAIN sessions' :
              Len(sessions'[sid].questions) <= MAX_QUESTIONS
        /\ \A sid \in SessionIdsAsked, flag \in BOOLEAN, backend \in BackendOutcomes :
              ( /\ sid \in DOMAIN sessions
                /\ Len(sessions[sid].questions) = MAX_QUESTIONS
                /\ get_next_question(sid, flag, backend) )
              => /\ resp' = [op |-> "get_next_question", status |-> 400,
                             detail |-> "Maximum questions reached"]
                 /\ sessions' = sessions
      ]_vars

\* the request was refused on a session holding MAX_QUESTIONS questions
C1_Witness ==
    /\ resp.op = "get_next_question"
    /\ resp.status = 400
    /\ \E sid \in DOMAIN sessions : Len(sessions[sid].questions) = MAX_QUESTIONS

----------------------------------------------------------------------------
(* C2: in every session the first question has type Initial, whatever the    *)
(* follow-up flag of the request and whether the backend succeeded.          *)

C2_FirstQuestionInitial ==
    \A sid \in DOMAIN sessions :
        Len(sessions[sid].questions) >= 1
            => sessions[sid].questions[1].question_type = "initial"

\* a first question that came from the backend has just been returned
C2_Witness ==
    /\ resp.op = "get_next_question"
    /\ resp.status = 200
    /\ resp.total_questions_asked = 1
    /\ resp.question.question_text = "generated"

----------------------------------------------------------------------------
\* the answers of a session that reference its i-th question
AnswersTo(session, i) ==
    {k \in 1..Len(session.answers) :
        session.answers[k].question_id = session.questions[i].id}

Max(S) == CHOOSE x \in S : \A y \in S : y <= x

PolicyOnMostRecentAnswered(session) ==
    LET answered == {i \in 1..Len(session.questions) : AnswersTo(session, i) # {}}
    IN  /\ answered # {}
        /\ LET i == Max(answered)
           IN  should_ask_followup(
                   session.answers[Min(AnswersTo(session, i))].answer_text,
                   session.questions[i].expected_topics)

(* C3 as stated: on a session that has a question already, with the backend  *)
(* succeeding, the new question is FollowUp exactly when the flag is set and *)
(* the policy says yes for the most recent question that has an answer.      *)

C3_Original ==
    [][ \A flag \in BOOLEAN, backend \in CycleBackendOutcomes :
          ( /\ backend.ok
            /\ resp'.op = "get_next_question"
            /\ session_id_at(0) \in DOMAIN sessions
            /\ Len(sessions[session_id_at(0)].questions) > 0
            /\ Len(sessions[session_id_at(0)].questions) < MAX_QUESTIONS
            /\ get_next_question(session_id_at(0), flag, backend) )
          => /\ resp'.question.question_type \in {"initial", "follow_up"}
             /\ resp'.question.question_type = "follow_up"
                  <=> (flag /\ PolicyOnMostRecentAnswered(sessions[session_id_at(0)]))
      ]_vars

PolicyOnLastQuestion(session) ==
    LET n == Len(session.questions)
    IN  /\ AnswersTo(session, n) # {}
        /\ should_ask_followup(
               session.answers[Min(AnswersTo(session, n))].answer_text,
               session.questions[n].expected_topics)

(* C3 as amended: the new question is FollowUp exactly when the flag is set, *)
(* the last question of the session has an answer, and the policy says yes   *)
(* for the first answer submitted to that last question and its expected     *)
(* topics; in every other case it is Initial.                                *)

C3_FollowUpSelection ==
    [][ \A flag \in BOOLEAN, backend \in CycleBackendOutcomes :
          ( /\ backend.ok
            /\ resp'.op = "get_next_question"
            /\ session_id_at(0) \in DOMAIN sessions
            /\ Len(sessions[session_id_at(0)].questions) > 0
            /\ Len(sessions[session_id_at(0)].questions) < MAX_QUESTIONS
            /\ get_next_question(session_id_at(0), flag, backend) )
          => /\ resp'.question.question_type \in {"initial", "follow_up"}
             /\ resp'.question.question_type = "follow_up"
                  <=> (flag /\ PolicyOnLastQuestion(sessions[session_id_at(0)]))
      ]_vars

\* a FollowUp question has just been returned after a question answered twice,
\* first briefly and then at length
C3_Witness ==
    /\ resp.op = "get_next_question"
    /\ resp.status = 200
    /\ resp.question.question_type = "follow_up"
    /\ LET session == sessions[session_id_at(0)]
           n == Len(session.questions)
       IN  /\ n >= 2
           /\ resp.question = session.questions[n]
           /\ Cardinality(AnswersTo(session, n - 1)) = 2
           /\ session.answers[Min(AnswersTo(session, n - 1))].answer_text = AnswerShort
           /\ session.answers[Max(AnswersTo(session, n - 1))].answer_text = AnswerBoth

----------------------------------------------------------------------------
\* words counted by their first characters, topics compared letter by letter
NumWords(text) ==
    Cardinality({i \in 1..Len(text) :
        ~IsSpace(text[i]) /\ (i = 1 \/ IsSpace(text[i - 1]))})

SameLetter(c, d) ==
    \/ c = d
    \/ \E k \in 1..Len(UpperLetters) : {c, d} = {UpperLetters[k], LowerLetters[k]}

OccursIgnoringCase(topic, text) ==
    \E off \in 0..(Len(text) - Len(topic)) :
        \A j \in 1..Len(topic) : SameLetter(topic[j], text[off + j])

NumCovered(text, topics) ==
    Cardinality({i \in 1..Len(topics) : OccursIgnoringCase(topics[i], text)})

(* C4: should_ask_followup is true exactly when the answer has fewer than    *)
(* 10 white-space separated words (the empty answer included) or fewer than  *)
(* half of the expected topics occur in it as a substring, letter case       *)
(* ignored; so 10 words with no expected topic give false, and 10 words      *)
(* covering exactly half of the topics give false.                           *)

C4_FollowUpPolicy ==
    (resp.op = "should_ask_followup" /\ resp.result # None)
        => LET text == resp.answer_text
               topics == resp.expected_topics
           IN  /\ resp.result[1] =
                     (\/ NumWords(text) < 10
                      \/ 2 * NumCovered(text, topics) < Len(topics))
               /\ (NumWords(text) >= 10 /\ topics = <<>>) => resp.result[1] = FALSE
               /\ (NumWords(text) >= 10 /\ 2 * NumCovered(text, topics) = Len(topics))
                     => resp.result[1] = FALSE

\* the policy said no for an answer of exactly 10 words that covers one of two
\* topics, the covered one written in the other letter case
C4_Witness ==
    /\ resp.op = "should_ask_followup"
    /\ resp.result = Some(FALSE)
    /\ NumWords(resp.answer_text) = 10
    /\ resp.expected_topics = <<W_ab, W_z>>
    /\ Contains(W_AB, resp.answer_text)
    /\ ~Contains(W_ab, resp.answer_text)

----------------------------------------------------------------------------
(* C5: when the backend fails, a request for the next question on a session  *)
(* below the cap is answered 200 with the fixed default question, of type    *)
(* Initial even where FollowUp had been selected, with the topics            *)
(* challenges and problem-solving, and exactly that one question is          *)
(* appended to the session.                                                  *)

C5_Fallback ==
    [][ \A flag \in BOOLEAN :
          ( /\ resp'.op = "get_next_question"
            /\ session_id_at(0) \in DOMAIN sessions
            /\ Len(sessions[session_id_at(0)].questions) < MAX_QUESTIONS
            /\ get_next_question(session_id_at(0), flag, BackendFailure) )
          => /\ resp'.status = 200
             /\ resp'.question.question_text =
                  "Can you explain the main technical challenge you faced in this project?"
             /\ resp'.question.question_type = "initial"
             /\ resp'.question.expected_topics = <<T_challenges, T_problem_solving>>
             /\ sessions'[session_id_at(0)].questions =
                  Append(sessions[session_id_at(0)].questions, resp'.question)
             /\ DOMAIN sessions' = DOMAIN sessions
      ]_vars

\* the default question has just been returned although the last question had
\* been answered with "ok", for which the policy asks a follow-up
C5_Witness ==
    /\ resp.op = "get_next_question"
    /\ resp.status = 200
    /\ resp.question.context = Some("Fallback question")
    /\ LET session == sessions[session_id_at(0)]
           n == Len(session.questions)
       IN  /\ n >= 2
           /\ resp.question = session.questions[n]
           /\ AnswersTo(session, n - 1) # {}
           /\ \A k \in AnswersTo(session, n - 1) :
                 session.answers[k].answer_text = AnswerShort

----------------------------------------------------------------------------
(* C6: within a session the n-th question carries the ordinal n in its       *)
(* identity, so no two questions of a session share an identity, whether     *)
(* they came from the backend or from the fallback.                          *)

C6_Ordinals ==
    \A sid \in DOMAIN sessions :
        LET qs == sessions[sid].questions
        IN  /\ \A n \in 1..Len(qs) : qs[n].id = <<"q_", n>>
            /\ \A m, n \in 1..Len(qs) : m # n => qs[m].id # qs[n].id

\* a session holds MAX_QUESTIONS questions, fallback and backend ones mixed
C6_Witness ==
    \E sid \in DOMAIN sessions :
        LET qs == sessions[sid].questions
        IN  /\ Len(qs) = MAX_QUESTIONS
            /\ qs[1].context = Some("Fallback question")
            /\ qs[2].context # Some("Fallback question")
            /\ qs[MAX_QUESTIONS].context = Some("Fallback question")

----------------------------------------------------------------------------
(* C7: two questions that belong to different sessions never have the same   *)
(* identity.                                                                 *)

C7_DistinctAcrossSessions ==
    \A s1, s2 \in DOMAIN sessions :
        s1 # s2 =>
            \A i \in 1..Len(sessions[s1].questions), j \in 1..Len(sessions[s2].questions) :
                sessions[s1].questions[i].id # sessions[s2].questions[j].id

----------------------------------------------------------------------------
(* C8: every answer stored in a session references the identity of a         *)
(* question present in the same session.                                     *)

C8_AnswersReferenceQuestions ==
    \A sid \in DOMAIN sessions :
        \A k \in 1..Len(sessions[sid].answers) :
            \E i \in 1..Len(sessions[sid].questions) :
                sessions[sid].questions[i].id = sessions[sid].answers[k].question_id

\* an answer to the second question of a session is stored, while another
\* session of the store has no question at all
C8_Witness ==
    \E s1, s2 \in DOMAIN sessions :
        /\ s1 # s2
        /\ sessions[s2].questions = <<>>
        /\ \E k \in 1..Len(sessions[s1].answers) :
              sessions[s1].answers[k].question_id = <<"q_", 2>>

----------------------------------------------------------------------------
(* C9: no two answers of a session reference the same question identity.     *)

C9_OneAnswerPerQuestion ==
    \A sid \in DOMAIN sessions :
        \A j, k \in 1..Len(sessions[sid].answers) :
            j # k => sessions[sid].answers[j].question_id
                        # sessions[sid].answers[k].question_id

----------------------------------------------------------------------------
\* the weighted sum of the four scores, in hundredths of a point
WeightedSum(score) ==
    30 * score.technical_depth + 25 * score.clarity
    + 25 * score.originality + 20 * score.understanding

IsExample(score) ==
    /\ score.technical_depth = 80
    /\ score.clarity = 70
    /\ score.originality = 90
    /\ score.understanding = 60

(* C10 as stated: every Evaluation returned, by the backend path or the      *)
(* default path, has overall = 0.30 technical_depth + 0.25 clarity           *)
(* + 0.25 originality + 0.20 understanding of its own four scores; the       *)
(* scores (80, 70, 90, 60) give 77.                                          *)

C10_Original ==
    (resp.op = "evaluate_session" /\ resp.evaluation # None)
        => LET score == resp.evaluation[1].score
           IN  /\ score.overall_score = WeightedSum(score)
               /\ IsExample(score) => score.overall_score = 77 * 100

(* C10 as amended: the same weighted sum, and (80, 70, 90, 60) give 76.      *)

C10_WeightedOverall ==
    (resp.op = "evaluate_session" /\ resp.evaluation # None)
        => LET score == resp.evaluation[1].score
           IN  /\ score.overall_score = WeightedSum(score)
               /\ IsExample(score) => score.overall_score = 76 * 100

\* the backend's scores (80, 70, 90, 60) were accepted and returned
C10_Witness ==
    /\ resp.op = "evaluate_session"
    /\ resp.evaluation # None
    /\ resp.backend.ok
    /\ IsExample(resp.evaluation[1].score)
    /\ resp.evaluation[1].feedback # DefaultFeedback

----------------------------------------------------------------------------
\* the four dimensions of a score
Dimensions == {"technical_depth", "clarity", "originality", "understanding"}

\* an Evaluation with every score pinned to 70 and the marker in its feedback
IsDefaultEvaluation(ev) ==
    /\ \A d \in Dimensions : ev.score[d] = 70
    /\ ev.score.overall_score = 70 * 100
    /\ "error" \in DOMAIN ev.feedback.specific_notes
    /\ ev.feedback.specific_notes.error = "Automatic evaluation unavailable"

(* C11: every Evaluation returned has its four dimension scores and its      *)
(* overall score within [0,100], and a backend payload with a dimension      *)
(* outside [0,100] is not passed through: the default Evaluation is          *)
(* returned in its place.                                                    *)

C11_ScoresBounded ==
    (resp.op = "evaluate_session" /\ resp.evaluation # None)
        => LET ev == resp.evaluation[1]
           IN  /\ \A d \in Dimensions : 0 <= ev.score[d] /\ ev.score[d] <= 100
               /\ 0 <= ev.score.overall_score /\ ev.score.overall_score <= 100 * 100
               /\ ( /\ resp.backend.ok
                    /\ \E d \in Dimensions :
                          resp.backend.scores[d] < 0 \/ resp.backend.scores[d] > 100 )
                  => IsDefaultEvaluation(ev)

\* the backend gave 101 for one dimension, with an overall still below 100,
\* and the default Evaluation was returned
C11_Witness ==
    /\ resp.op = "evaluate_session"
    /\ resp.evaluation # None
    /\ resp.backend.ok
    /\ resp.backend.scores.clarity = 101
    /\ resp.backend.scores.technical_depth = 0
    /\ IsDefaultEvaluation(resp.evaluation[1])

----------------------------------------------------------------------------
(* C12: when the backend call fails or its output lacks the expected         *)
(* structure, evaluate returns the default Evaluation: the four dimensions   *)
(* and the overall score are 70, the feedback carries the marker             *)
(* 'Automatic evaluation unavailable', and total_questions is the number of  *)
(* questions of the session.                                                 *)

C12_DefaultEvaluation ==
    (resp.op = "evaluate_session" /\ ~resp.backend.ok)
        => \/ resp.evaluation = None
           \/ LET ev == resp.evaluation[1]
              IN  /\ IsDefaultEvaluation(ev)
                  /\ ev.total_questions = Len(resp.session.questions)
                  /\ ev.session_id = resp.session.session_id

\* the backend failed on a session with one question and the default
\* Evaluation counting that question was returned
C12_Witness ==
    /\ resp.op = "evaluate_session"
    /\ ~resp.backend.ok
    /\ Len(resp.session.questions) = 1
    /\ resp.evaluation # None
    /\ resp.evaluation[1].total_questions = 1
    /\ resp.evaluation[1].score.overall_score = 70 * 100

----------------------------------------------------------------------------
\* the durations of the session's audio segments, in tenths of a second
Durations(session) ==
    [i \in 1..Len(session.audio_segments) |-> session.audio_segments[i].duration]

(* C13: every Evaluation returned, the default one included, has             *)
(* total_duration = end_time - start_time when the session has both times,   *)
(* and otherwise the sum of the durations of the session's audio segments;   *)
(* no end_time and durations 2.5, 3.0, 1.5 give 7.0.                         *)

C13_Duration ==
    (resp.op = "evaluate_session" /\ resp.evaluation # None)
        => LET session == resp.session
               ev == resp.evaluation[1]
           IN  /\ session.end_time # None
                    => ev.total_duration = (session.end_time[1] - session.start_time) * 10
               /\ session.end_time = None
                    => ev.total_duration = SumSeq(Durations(session))
               /\ (session.end_time = None /\ Durations(session) = <<25, 30, 15>>)
                    => ev.total_duration = 70

----------------------------------------------------------------------------
\* the status and the start time of a stored session, object or dict
StatusOf(x) == IF IsDict(x) THEN DictGet(x, "status") ELSE Some(x.status)
StartTimeOf(x) == IF IsDict(x) THEN DictGet(x, "start_time") ELSE Some(x.start_time)

\* the step stores a new session (which takes the place of any session that
\* had the identity)
Creates == resp'.op \in {"start_session", "create_session"}

(* C14: a session started by start-session is Active, and a session whose    *)
(* status is Completed is still Completed after every step that leaves it     *)
(* in the store: evidence, next question, answer, evaluation, update.         *)

C14_CompletedStays ==
    [][ /\ resp'.op = "start_session"
              => sessions'[resp'.session_id].status = "active"
        /\ \A sid \in DOMAIN sessions \cap DOMAIN sessions' :
              (StatusOf(sessions[sid]) = Some("completed") /\ ~Creates)
                  => StatusOf(sessions'[sid]) = Some("completed")
      ]_vars

----------------------------------------------------------------------------
(* C15: once a session has a stored Evaluation, every later step that leaves *)
(* the session in the store, a further evaluation included, leaves that       *)
(* Evaluation as it is.                                                       *)

C15_EvaluationImmutable ==
    [][ \A sid \in ObjectIds \cap DOMAIN sessions' :
          (sessions[sid].evaluation # None /\ ~Creates)
              => sessions'[sid].evaluation = sessions[sid].evaluation
      ]_vars

----------------------------------------------------------------------------
(* C16: evaluate applied to a session that already holds an Evaluation       *)
(* answers from the session as it is at the call: total_questions is the     *)
(* number of questions the session has now, and the scores are those of      *)
(* this call's backend outcome, whatever the earlier Evaluation says.        *)

C16_Rederived ==
    (resp.op = "evaluate_session" /\ resp.evaluation # None)
        => LET ev == resp.evaluation[1]
           IN  /\ ev.total_questions = Len(resp.session.questions)
               /\ resp.backend.ok =>
                     \A d \in Dimensions : ev.score[d] = resp.backend.scores[d]
               /\ ~resp.backend.ok => IsDefaultEvaluation(ev)

\* a session evaluated when it had no question, by default, is evaluated
\* again with two questions and the backend's scores
C16_Witness ==
    /\ resp.op = "evaluate_session"
    /\ resp.evaluation # None
    /\ resp.session.evaluation # None
    /\ resp.session.evaluation[1].total_questions = 0
    /\ IsDefaultEvaluation(resp.session.evaluation[1])
    /\ resp.evaluation[1].total_questions = 2
    /\ resp.evaluation[1].score.technical_depth = 80

----------------------------------------------------------------------------
(* C17: start-session stores the new session under an identity no session of *)
(* the store has, so every session that was in the store is still there and  *)
(* unchanged; the new session is Active, without end_time, with no evidence, *)
(* question or answer.                                                        *)

C17_FreshIdentity ==
    [][ \A name \in {None, Some("n")} :
          (resp'.op = "start_session" /\ start_session(name, None))
              => /\ resp'.session_id \notin DOMAIN sessions
                 /\ \A sid \in DOMAIN sessions : sessions'[sid] = sessions[sid]
                 /\ LET session == sessions'[resp'.session_id]
                    IN  /\ session.status = "active"
                        /\ session.end_time = None
                        /\ session.screen_contents = <<>>
                        /\ session.audio_segments = <<>>
                        /\ session.questions = <<>>
                        /\ session.answers = <<>>
      ]_vars

----------------------------------------------------------------------------
\* the response is Not-Found and the store is as it was
NotFoundUnchanged == resp'.status = 404 /\ sessions' = sessions

(* C18: a request that names a session identity absent from the store        *)
(* (screen, audio, next question, answer, evaluate, get, delete) is answered *)
(* 404, and so is an answer to a question identity absent from a session     *)
(* started by start-session; the store is left unchanged.                     *)

C18_NotFound ==
    [][ /\ \A sid \in LifeSessionIds \ DOMAIN sessions :
              /\ \A r \in LifeOcrResults : analyze_screen(sid, r) => NotFoundUnchanged
              /\ \A r \in LifeSttResults : transcribe_audio(sid, r) => NotFoundUnchanged
              /\ \A flag \in BOOLEAN :
                    get_next_question(sid, flag, BackendFailure) => NotFoundUnchanged
              /\ \A qid \in {question_id(0), question_id(1)} :
                    submit_answer(sid, qid, AnswerShort) => NotFoundUnchanged
              /\ \A backend \in LifeEvaluationOutcomes :
                    main_evaluate_session(sid, backend) => NotFoundUnchanged
              /\ main_get_session(sid) => NotFoundUnchanged
              /\ main_delete_session(sid) => NotFoundUnchanged
        /\ \A sid \in ObjectIds, qid \in {question_id(0), question_id(1)} :
              ( /\ \A i \in 1..Len(sessions[sid].questions) :
                      sessions[sid].questions[i].id # qid
                /\ submit_answer(sid, qid, AnswerShort) )
              => NotFoundUnchanged
      ]_vars

\* a delete naming an absent identity was answered 404 while the store holds
\* a session
C18_Witness ==
    /\ resp.op = "main.delete_session"
    /\ resp.status = 404
    /\ ObjectIds # {}

----------------------------------------------------------------------------
(* C19: the session start-session stores is in the store under the returned  *)
(* identity and stays there until a deletion; get answers 200 with the       *)
(* stored session for an identity of the store and 404 for any other; delete *)
(* of an identity of the store answers 200 and removes it, so that a get or  *)
(* a delete that follows is answered 404.                                     *)

----------------------------------------------------------------------------
(* C20: cleanup_old_sessions(max_age) run at time now removes exactly the     *)
(* sessions with now - start_time > max_age and leaves every other session   *)
(* in the store, unchanged.                                                   *)

C20_Expire ==
    [][ \A max_age_seconds \in StoreMaxAges :
          (resp'.op = "cleanup_old_sessions" /\ cleanup_old_sessions(max_age_seconds))
              => /\ DOMAIN sessions' =
                      {sid \in DOMAIN sessions :
                          ~(/\ StartTimeOf(sessions[sid]) # None
                            /\ now - StartTimeOf(sessions[sid])[1] > max_age_seconds)}
                 /\ \A sid \in DOMAIN sessions' : sessions'[sid] = sessions[sid]
      ]_vars

----------------------------------------------------------------------------
(* C21: get leaves the store as it was; for an identity of the store it      *)
(* answers with the stored session, and a get that follows a get of the same *)
(* session, nothing having happened in between, answers with the same        *)
(* session contents.                                                          *)

C21_GetReadOnly ==
    [][ \A sid \in StoreSessionIds :
          (resp'.op = "main.get_session" /\ main_get_session(sid))
              => /\ sessions' = sessions
                 /\ sid \in DOMAIN sessions =>
                       resp'.status = 200 /\ resp'.session = sessions[sid]
                 /\ ( /\ resp.op = "main.get_session"
                      /\ resp.status = 200
                      /\ ~IsDict(resp.session)
                      /\ resp.session.session_id = sid )
                    => resp'.status = 200 /\ resp'.session = resp.session
      ]_vars

\* a get has answered with a session that holds a question, and the store
\* still holds that session
C21_Witness ==
    /\ resp.op = "main.get_session"
    /\ resp.status = 200
    /\ ~IsDict(resp.session)
    /\ Len(resp.session.questions) = 1
    /\ resp.session.session_id \in DOMAIN sessions
    /\ sessions[resp.session.session_id] = resp.session

----------------------------------------------------------------------------
(* C22: when the text extraction or the transcription fails, the screen or   *)
(* audio request on a session of the store is answered with a failure (400)  *)
(* and the store, so the session's screen and audio sequences, is as before. *)

C22_FailedEvidence ==
    [][ \A sid \in DOMAIN sessions :
          /\ (resp'.op = "analyze_screen" /\ analyze_screen(sid, OcrFailure))
                => resp'.status = 400 /\ sessions' = sessions
          /\ (resp'.op = "transcribe_audio" /\ transcribe_audio(sid, SttFailure))
                => resp'.status = 400 /\ sessions' = sessions
      ]_vars

\* a screen request was answered 400 on a session that already holds a
\* screen content and nothing else
C22_Witness ==
    /\ resp.op = "analyze_screen"
    /\ resp.status = 400
    /\ \E sid \in ObjectIds :
          /\ Len(sessions[sid].screen_contents) = 1
          /\ sessions[sid].screen_contents[1].content_type = "code"

----------------------------------------------------------------------------
\* s is a prefix of t
IsPrefix(s, t) == Len(s) <= Len(t) /\ SubSeq(t, 1, Len(s)) = s

(* C23: whatever the step, a session that stays in the store keeps its       *)
(* screen contents, audio segments and questions as a prefix of what it has  *)
(* afterwards, so its number of questions never decreases (the step of       *)
(* start-session or create_session that stores a new session under the       *)
(* identity is not a step on that session).                                   *)

C23_AppendOnly ==
    [][ \A sid \in ObjectIds \cap DOMAIN sessions' :
          (~Creates /\ ~IsDict(sessions'[sid]))
              => /\ IsPrefix(sessions[sid].screen_contents,
                             sessions'[sid].screen_contents)
                 /\ IsPrefix(sessions[sid].audio_segments,
                             sessions'[sid].audio_segments)
                 /\ IsPrefix(sessions[sid].questions, sessions'[sid].questions)
                 /\ Len(sessions[sid].questions) <= Len(sessions'[sid].questions)
      ]_vars

\* a session with a screen content and an audio segment has been evaluated
C23_Witness ==
    /\ resp.op = "main.evaluate_session"
    /\ resp.status = 200
    /\ \E sid \in ObjectIds :
          /\ Len(sessions[sid].screen_contents) = 1
          /\ Len(sessions[sid].audio_segments) = 1
          /\ sessions[sid].status = "completed"

----------------------------------------------------------------------------
(* Reading a context back: its lines, the screen lines among them with the   *)
(* text each shows, the words of the speech line, the Q: and A: lines         *)

LineBreaks(text) == {i \in 1..Len(text) : text[i] = "\n"}

LineStarts(text) == {1} \cup {i + 1 : i \in LineBreaks(text)}

LineFrom(text, p) ==
    SubSeq(text, p, Min({i \in LineBreaks(text) \cup {Len(text) + 1} : i >= p}) - 1)

Lines(text) ==
    LET starts == LineStarts(text)
    IN  [k \in 1..Cardinality(starts) |->
            LineFrom(text, CHOOSE p \in starts :
                               Cardinality({q \in starts : q < p}) = k - 1)]

StartsWith(line, prefix) ==
    Len(line) >= Len(prefix) /\ SubSeq(line, 1, Len(prefix)) = prefix

\* a line that shows a screen content: "[TYPE] text" or "i. [type] text"
IsScreenLine(line) ==
    /\ Contains(<<"]", " ">>, line)
    /\ \/ line[1] = "["
       \/ \E d \in 1..10 : line[1] = DecimalDigits[d]

\* what follows the first "] " of a screen line
ShownText(line) ==
    LET at == Min({i \in 1..(Len(line) - 1) : SubSeq(line, i, i + 1) = <<"]", " ">>})
    IN  SubSeq(line, at + 2, Len(line))

ScreensShown(context) ==
    LET screen_lines == SelectSeq(Lines(context), IsScreenLine)
    IN  [k \in 1..Len(screen_lines) |-> ShownText(screen_lines[k])]

IsSpeechHeading(line) == line = SubSeq(Templates.RecentSpeech, 2, Len(Templates.RecentSpeech) - 1)

\* the transcriptions of the line under the speech heading, none without heading
SpeechShown(context) ==
    LET lines == Lines(context)
        at == {k \in 1..(Len(lines) - 1) : IsSpeechHeading(lines[k])}
    IN  IF at = {} THEN <<>> ELSE split(lines[Min(at) + 1])

IsQLine(line) == StartsWith(line, Templates.Q)
IsALine(line) == StartsWith(line, Templates.EA)

\* the question/answer pairs of a context, in the order of its lines
PairsShown(context) ==
    LET q_lines == SelectSeq(Lines(context), IsQLine)
        a_lines == SelectSeq(Lines(context), IsALine)
    IN  IF Len(q_lines) # Len(a_lines) THEN <<"unpaired">>
        ELSE [k \in 1..Len(q_lines) |->
                 <<SubSeq(q_lines[k], Len(Templates.Q) + 1, Len(q_lines[k])),
                   SubSeq(a_lines[k], Len(Templates.EA) + 1, Len(a_lines[k]))>>]

\* the mark and index a text starts with
MarkOf(text) == SubSeq(text, 1, Min({2, Len(text)}))

\* <<question text, text of its first answer>> of the answered ones among
\* the given questions, in their order
AnsweredPairs(session, questions) ==
    LET RECURSIVE pairs(_)
        pairs(qs) ==
            IF qs = <<>> THEN <<>>
            ELSE LET matching == {i \in 1..Len(session.answers) :
                                     session.answers[i].question_id = Head(qs).id}
                 IN  (IF matching = {} THEN <<>>
                      ELSE <<<<Head(qs).question_text,
                               session.answers[Min(matching)].answer_text>>>>)
                     \o pairs(Tail(qs))
    IN  pairs(questions)

\* the last n elements of s, all of them when it has fewer
LastOf(s, n) == [k \in 1..Min({n, Len(s)}) |-> s[Len(s) - Min({n, Len(s)}) + k]]

----------------------------------------------------------------------------
(* C26: the question-mode context shows the last min(5, n) screen contents   *)
(* of the session and the transcriptions of its last min(5, m) audio         *)
(* segments, each window in arrival order; no earlier item appears in it.    *)

C26_RecentWindows ==
    resp.op = "_build_context" =>
        LET session == resp.session
            shown == ScreensShown(resp.context)
            recent_screens == LastOf(session.screen_contents, 5)
            recent_audio == LastOf(session.audio_segments, 5)
        IN  /\ Len(shown) = Len(recent_screens)
            /\ \A k \in 1..Len(shown) :
                  StartsWith(shown[k], MarkOf(recent_screens[k].extracted_text))
            /\ \A i \in 1..(Len(session.screen_contents) - 5) :
                  ~Contains(MarkOf(session.screen_contents[i].extracted_text),
                            resp.context)
            /\ SpeechShown(resp.context) =
                  [k \in 1..Len(recent_audio) |-> recent_audio[k].transcription]
            /\ \A i \in 1..(Len(session.audio_segments) - 5) :
                  ~Contains(session.audio_segments[i].transcription, resp.context)

\* the context of a session with six screen contents and more than five
\* audio segments shows five of each
C26_Witness ==
    /\ resp.op = "_build_context"
    /\ Len(resp.session.screen_contents) = 6
    /\ Len(resp.session.audio_segments) > 5
    /\ Len(ScreensShown(resp.context)) = 5
    /\ Len(SpeechShown(resp.context)) = 5

----------------------------------------------------------------------------
(* C27: the evaluation-mode context shows the first min(10, n) screen        *)
(* contents of the session in arrival order and none after them, and the     *)
(* question/answer pair of every question that has an answer, in question    *)
(* order (the answer shown is the first one submitted to the question).      *)

C27_EvaluationWindows ==
    resp.op = "_prepare_evaluation_context" =>
        LET session == resp.session
            n == Len(session.screen_contents)
            shown == ScreensShown(resp.context)
        IN  /\ Len(shown) = Min({10, n})
            /\ \A k \in 1..Len(shown) :
                  StartsWith(shown[k], MarkOf(session.screen_contents[k].extracted_text))
            /\ \A i \in 11..n :
                  ~Contains(MarkOf(session.screen_contents[i].extracted_text),
                            resp.context)
            /\ PairsShown(resp.context) = AnsweredPairs(session, session.questions)

\* the evaluation context of a session with more than ten screen contents
\* shows ten
C27_Witness ==
    /\ resp.op = "_prepare_evaluation_context"
    /\ Len(resp.session.screen_contents) > 10
    /\ Len(ScreensShown(resp.context)) = 10

----------------------------------------------------------------------------
(* C28, as claimed: the question-mode context shows the min(3, k) most        *)
(* recent of the session's k question/answer pairs.                           *)

----------------------------------------------------------------------------
\* text cut to bound characters, marked only when something was cut
Truncated(text, bound) ==
    IF Len(text) > bound THEN SubSeq(text, 1, bound) \o Templates.Ellipsis ELSE text

(* C29: a screen text longer than the bound of the mode (200 in question     *)
(* mode, 150 in evaluation mode) is shown as its first bound characters       *)
(* followed by the ellipsis; a text no longer than the bound is shown as it   *)
(* is, without ellipsis, and an empty text as nothing.                        *)

C29_Truncation ==
    /\ resp.op = "_build_context" =>
          LET shown == ScreensShown(resp.context)
              recent_screens == LastOf(resp.session.screen_contents, 5)
          IN  \A k \in 1..Min({Len(shown), Len(recent_screens)}) :
                 shown[k] = Truncated(recent_screens[k].extracted_text, 200)
    /\ resp.op = "_prepare_evaluation_context" =>
          LET shown == ScreensShown(resp.context)
          IN  \A k \in 1..Min({Len(shown), Len(resp.session.screen_contents)}) :
                 shown[k] = Truncated(resp.session.screen_contents[k].extracted_text, 150)

----------------------------------------------------------------------------
(* C30: a next-question request, which builds the question-mode context,     *)
(* changes nothing of the session but its list of questions; an evaluation   *)
(* request, which builds the evaluation-mode context and runs the evaluator, *)
(* leaves evidence, questions and answers as they were and changes only       *)
(* status (Completed), end_time and the stored evaluation, the one it        *)
(* answers with; no other request changes status, end_time or evaluation.    *)

C30_Frame ==
    [][ \A sid \in ObjectIds \cap DOMAIN sessions' :
          (~Creates /\ ~IsDict(sessions'[sid]))
              => LET before == sessions[sid]
                     after == sessions'[sid]
                 IN  /\ resp'.op = "get_next_question" =>
                           after = [before EXCEPT !.questions = after.questions]
                     /\ resp'.op # "main.evaluate_session" =>
                           /\ after.status = before.status
                           /\ after.end_time = before.end_time
                           /\ after.evaluation = before.evaluation
                     /\ (resp'.op = "main.evaluate_session" /\ after # before) =>
                           after = [before EXCEPT
                                       !.status = "completed",
                                       !.end_time = Some(now),
                                       !.evaluation = Some(resp'.evaluation)]
      ]_vars

\* a session with a question and its answer has been evaluated and holds both
C30_Witness ==
    /\ resp.op = "main.evaluate_session"
    /\ resp.status = 200
    /\ \E sid \in ObjectIds :
          /\ Len(sessions[sid].questions) = 1
          /\ Len(sessions[sid].answers) = 1
          /\ sessions[sid].status = "completed"
          /\ sessions[sid].evaluation = Some(resp.evaluation)

----------------------------------------------------------------------------
\* a handler has just answered from its external call
Returns == Len(loop'.running) < Len(loop.running)

(* C24: a next-question request that arrives while another one on the same   *)
(* session is at its backend call is served after that one has appended its  *)
(* question: the question a request appends has an identity that no question *)
(* of the session has, so the two appended questions differ in identity.     *)

C24_DistinctOrdinals ==
    [][ (Returns /\ resp'.op = "get_next_question" /\ resp'.status = 200)
            => LET session_id == loop'.answered[1].session_id
               IN  /\ session_id \in DOMAIN sessions
                   /\ \A i \in 1..Len(sessions[session_id].questions) :
                         sessions[session_id].questions[i].id # resp'.question.id
      ]_vars

\* the second of two next-question requests, received while the first was at
\* its backend call, has been answered with q_2 and the session holds q_1, q_2
C24_Witness ==
    /\ resp.op = "get_next_question"
    /\ resp.status = 200
    /\ loop.answered # None
    /\ "get_next_question" \in loop.answered[1].during
    /\ resp.question.id = question_id(1)
    /\ session_id_at(0) \in DOMAIN sessions
    /\ Len(sessions[session_id_at(0)].questions) = 2
    /\ sessions[session_id_at(0)].questions[1].id = question_id(0)
    /\ sessions[session_id_at(0)].questions[2].id = question_id(1)

----------------------------------------------------------------------------
(* C25: no step removes a session from the store while a handler that has    *)
(* fetched it is at its external call, and when a screen, next-question or   *)
(* evaluation handler answers 200 from its external call, the store holds    *)
(* the session with, at its end, the screen content or the question it       *)
(* reports, or with the evaluation it reports.                                *)

----------------------------------------------------------------------------
(* C31: in every reachable state every question stored in a session has the  *)
(* type Initial or FollowUp; none has the type Clarification or DeepDive.     *)

C31_TypesUsed ==
    \A sid \in DOMAIN sessions :
       \A i \in 1..Len(sessions[sid].questions) :
          sessions[sid].questions[i].question_type \in {"initial", "follow_up"}

\* the session holds an Initial question followed by a FollowUp question
C31_Witness ==
    \E sid \in DOMAIN sessions :
       \E i, j \in 1..Len(sessions[sid].questions) :
          /\ i < j
          /\ sessions[sid].questions[i].question_type = "initial"
          /\ sessions[sid].questions[j].question_type = "follow_up"

----------------------------------------------------------------------------
\* the end time and the evaluation of a stored session, object or dict
EndTimeOf(x) == IF IsDict(x) THEN DictGet(x, "end_time") ELSE x.end_time
EvaluationOf(x) == IF IsDict(x) THEN DictGet(x, "evaluation") ELSE x.evaluation

\* status Completed exactly when an evaluation is stored and end_time is set
CompletedIffEvaluated(x) ==
    StatusOf(x) = Some("completed")
        <=> (EvaluationOf(x) # None /\ EndTimeOf(x) # None)

(* C32: after every step each stored session has status Completed exactly    *)
(* when it holds an evaluation and an end_time; an evaluation request on a   *)
(* session that start-session stored leaves it Completed with end_time set   *)
(* and an evaluation stored, also when the backend fails; and no other step  *)
(* that leaves a session in the store changes its status, end_time or        *)
(* evaluation.                                                               *)

C32_CompletedIffEvaluated ==
    [][ /\ \A sid \in DOMAIN sessions' : CompletedIffEvaluated(sessions'[sid])
        /\ \A sid \in ObjectIds, backend \in LifeEvaluationOutcomes :
              (resp'.op = "main.evaluate_session"
                 /\ main_evaluate_session(sid, backend))
                  => /\ StatusOf(sessions'[sid]) = Some("completed")
                     /\ EndTimeOf(sessions'[sid]) # None
                     /\ EvaluationOf(sessions'[sid]) # None
        /\ \A sid \in DOMAIN sessions \cap DOMAIN sessions' :
              (resp'.op # "main.evaluate_session" /\ ~Creates)
                  => /\ StatusOf(sessions'[sid]) = StatusOf(sessions[sid])
                     /\ EndTimeOf(sessions'[sid]) = EndTimeOf(sessions[sid])
                     /\ EvaluationOf(sessions'[sid]) = EvaluationOf(sessions[sid])
      ]_vars

----------------------------------------------------------------------------
(* C33: in every reachable state the evaluation stored in a session reports  *)
(* as total_questions the number of questions the session holds now, so no   *)
(* question is appended to a session once its evaluation is stored.           *)

C33_EvaluationCountsQuestions ==
    \A sid \in ObjectIds :
       sessions[sid].evaluation # None
           => sessions[sid].evaluation[1].total_questions
                  = Len(sessions[sid].questions)

----------------------------------------------------------------------------
(* C34: when next-question requests on one session overlap, a request        *)
(* arriving while another is at its backend call, the session never holds    *)
(* more than MAX_QUESTIONS questions.                                         *)

C34_OverlapCapped ==
    \A sid \in ObjectIds : Len(sessions[sid].questions) <= MAX_QUESTIONS

\* a next-question request received while another one, which took the last
\* place of the session, was at its backend call has been refused, and the
\* session holds MAX_QUESTIONS questions
C34_Witness ==
    /\ resp.op = "get_next_question"
    /\ resp.status = 400
    /\ loop.answered # None
    /\ "get_next_question" \in loop.answered[1].during
    /\ loop.running = <<>>
    /\ Len(sessions[session_id_at(0)].questions) = MAX_QUESTIONS

----------------------------------------------------------------------------
\* the step leaves every stored session other than session_id as it is
OthersUnchanged(session_id) ==
    \A other \in DOMAIN sessions \ {session_id} :
       /\ other \in DOMAIN sessions'
       /\ sessions'[other] = sessions[other]

(* C35: a request addressed to one session identity (screen or audio         *)
(* evidence, next question, answer, evaluation, deletion) leaves every other *)
(* session of the store as it is, and start-session stores a session with    *)
(* empty sequences of its own and leaves the sessions of other identities    *)
(* as they are.                                                              *)

C35_Isolated ==
    [][ /\ \A sid \in PairSessionIds :
          /\ (resp'.op = "analyze_screen"
                /\ \E r \in LifeOcrResults : analyze_screen(sid, r))
                 => OthersUnchanged(sid)
          /\ (resp'.op = "transcribe_audio"
                /\ \E r \in LifeSttResults : transcribe_audio(sid, r))
                 => OthersUnchanged(sid)
          /\ (resp'.op = "get_next_question"
                /\ get_next_question(sid, FALSE, BackendFailure))
                 => OthersUnchanged(sid)
          /\ (resp'.op = "submit_answer"
                /\ submit_answer(sid, question_id(0), AnswerShort))
                 => OthersUnchanged(sid)
          /\ (resp'.op = "main.evaluate_session"
                /\ main_evaluate_session(sid, EvaluationFailure))
                 => OthersUnchanged(sid)
          /\ (resp'.op = "main.delete_session" /\ main_delete_session(sid))
                 => OthersUnchanged(sid)
        /\ (resp'.op = "start_session" /\ start_session(None, None))
              => /\ OthersUnchanged(resp'.session_id)
                 /\ sessions'[resp'.session_id].screen_contents = <<>>
                 /\ sessions'[resp'.session_id].audio_segments = <<>>
                 /\ sessions'[resp'.session_id].questions = <<>>
                 /\ sessions'[resp'.session_id].answers = <<>>
      ]_vars

\* the store holds two sessions, the earlier one with a question and the
\* later one with a screen content, and the last request has added to one
C35_Witness ==
    /\ DOMAIN sessions = PairSessionIds
    /\ Len(sessions[session_id_at(0)].questions) = 1
    /\ sessions[session_id_at(0)].screen_contents = <<>>
    /\ Len(sessions[session_id_at(1)].screen_contents) = 1
    /\ sessions[session_id_at(1)].questions = <<>>
    /\ resp.op \in {"analyze_screen", "get_next_question"}
    /\ resp.status = 200

====
